---------------------------- MODULE Spec2Model ----------------------------
(***************************************************************************)
(* The BLIMP equality scan of compliance/blimp_equality/blimp_equality.cpp *)
(* as a state machine: a bank of BANK_ROWS rows of ROW_BUFFER_BYTES bytes, *)
(* the single row buffer, the accumulator row v0, and main()'s scan,       *)
(* drain and final flush.                                                  *)
(*                                                                         *)
(* The #defines of the source are the fields of the record cfg.  The scan  *)
(* is enumerated over scaled-down geometries (ScaledGeometries) with every *)
(* record count they can hold; the zone arithmetic of create_memory is     *)
(* also run on the source's own numbers (RefGeometry, SpecZones).          *)
(***************************************************************************)
EXTENDS Integers, Sequences, FiniteSets, TLC

VARIABLES
    cfg,          \* the #define block: geometry, layout and query constants
    rand_next,    \* state of the C library's rand()
    memory,       \* uint8_t memory[BANK_ROWS][ROW_BUFFER_BYTES]
    rowbuffer,    \* uint8_t rowbuffer[ROW_BUFFER_BYTES]
    current_row,  \* int current_row
    v0,           \* uint8_t v0[ROW_BUFFER_BYTES]
    pc,           \* position in main()
    record_index, \* main: loop variable of the scan
    row,          \* main: row of the record being scanned
    offset,       \* main: byte offset of the record in its row
    bitmap,       \* main: uint8_t byte in progress
    bitdex,       \* main: bits produced so far
    hitdex,       \* main: bytes completed so far
    mem0,         \* history: memory as create_memory left it
    loads,        \* history: rows passed to load_row by the scan, in order
    cmps,         \* history: <<row, byte offset, equal, bit packed>> of
                  \*   every compare
    stores,       \* history: <<row, v0>> of every store_v0, in order
    calls,        \* history: the last two calls of load_row / store_v0 made
                  \*   by the row-store driver, <<"load" | "store", row>> each
    rb_before,    \* history: the row buffer before the driver's last call
    zrow,         \* create_memory: the loop variable of the row loop
    zone,         \* history: the branch the last row took, and the number of
                  \*   rows that took each branch
    dump_file,    \* dump_memory: the lines written to the dump file
    \* BlimpHashMap (compliance/demos/hash-map/blimp_hash_map.hpp)
    bucket_size_, \* static constexpr size_t bucket_size_
    buckets_,     \* std::vector<Bucket> buckets_
    mask_,        \* uint32_t mask_
    allocated,    \* buckets_.capacity(): the elements its storage holds
    inserted,     \* history: the pairs given to insert, in order
    growth,       \* history: what the latest insert found, if it appended
                  \*   a bucket: the end of the key's chain and its content
    \* simple_query_1 (src/cpu/src/simple_queries/simple_query_1.hpp)
    word_bits,    \* the records per word of m (the 32 of uint32_t)
    arg_n,        \* size_t n
    arg_a0,       \* const uint16_t *a0
    arg_x,        \* uint16_t x of the call in progress
    arg_m,        \* uint32_t *m
    x_16u16,      \* filter_chunk_avx: the function-local static
    tasks,        \* parallel_for: the tasks of the call in progress
    kind,         \* which of filter / filter_avx is in progress
    result,       \* what aggregate returned for the last call
    ncalls,       \* history: the calls of filter / filter_avx made so far
    \* HashMap of sqb.cpp (compliance/cpu/src/sqb/sqb.cpp); its mask_ is the
    \* variable mask_ above
    data_,        \* std::vector<std::tuple<bool, K, V>> data_
    attempt,      \* history: the latest insert: its arguments, data_ before
                  \*   it, and what it threw
    accepted,     \* history: the pairs whose insert returned
    \* sq4_hit_map of sqb.cpp; its tasks are the variable tasks above
    hit_map,      \* std::vector<uint32_t> hit_map
    payloads,     \* std::vector<uint32_t> payloads
    payload_index, \* size_t payload_index, shared by the tasks
    a_10,         \* const std::vector<uint32_t> &a_10
    task_acc,     \* the accumulator (acc) of each task
    sq4_trials,   \* size_t trials
    sq4_trial,    \* util::time: the trial in progress
    consumed,     \* history: for each record consumed in this trial, the
                  \*   index read from payloads and the value read
    \* vertical.cpp (compliance/data_layout/vertical.cpp)
    region_size,  \* uint64_t region_size
    trials,       \* uint64_t trials
    chunk_size,   \* uint64_t chunk_size
    data_size,    \* uint64_t data_size
    src_memory_region, \* the region_size bytes at src_memory_region
    dst_memory_region, \* the region_size bytes at dst_memory_region
    z_index,      \* int z
    trial,        \* the trial loop's t
    chunk,        \* the chunk loop's i
    writes        \* history: the indices of dst_memory_region written by
                  \*   the latest step

hash_vars == <<bucket_size_, buckets_, mask_, allocated, inserted, growth>>

sqb_vars == <<data_, attempt, accepted>>

sq4_vars == <<hit_map, payloads, payload_index, a_10, task_acc, sq4_trials,
              sq4_trial, consumed>>

layout_vars == <<region_size, trials, chunk_size, data_size,
                 src_memory_region, dst_memory_region, z_index, trial, chunk,
                 writes>>

bench_vars == <<sqb_vars, sq4_vars, layout_vars>>

query_vars == <<word_bits, arg_n, arg_a0, arg_x, arg_m, x_16u16, tasks, kind, result, ncalls>>

vars == <<cfg, rand_next, memory, rowbuffer, current_row, v0, pc, record_index,
          row, offset, bitmap, bitdex, hitdex, mem0, loads, cmps, stores,
          calls, rb_before, zrow, zone, dump_file, hash_vars, query_vars, bench_vars>>

(***************************************************************************)
(* Bounds of the enumeration.                                              *)
(***************************************************************************)
\* seeds of rand() that are tried: 1..MaxSeed
MaxSeed == 4

(***************************************************************************)
(* The #define block.                                                      *)
(***************************************************************************)
\* The values of the source, lines 12-34.  SENTINEL_BACK is the literal 10 of
\* memory[HITMAP_BASE_ROW - 10] and SENTINEL_BYTES the eight assignments.
RefGeometry ==
    [ ROW_BUFFER_BYTES         |-> 1024,
      BANK_ROWS                |-> 32768,
      HITMAP_COUNT             |-> 3,
      INDEX_SIZE_BYTES         |-> 8,
      RECORD_SIZE_BYTES        |-> 512,
      ROWS_FOR_RECORDS         |-> 32220,
      ROWS_FOR_HITMAPS         |-> 24,
      RECORDS_PROCESSABLE      |-> 64440,
      HITMAP_BASE_ROW          |-> 32734,
      RECORD_BASE_ROW          |-> 514,
      PI_SUBINDEX_OFFSET_BYTES |-> 0,
      PI_ELEMENT_SIZE_BYTES    |-> 8,
      VALUE                    |-> <<0, 0, 0, 0, 0, 0, 0, 0>>,
      NEGATE                   |-> 0,
      HITMAP_INDEX             |-> 1,
      SENTINEL_BACK            |-> 10,
      SENTINEL_BYTES           |-> 8 ]

\* The reference shape with 2-byte rows: two 1-byte records per row, three
\* hitmaps of two rows each, hitmap 1 targeted; 32 records fill the targeted
\* hitmap exactly (2 rows * 2 bytes * 8 bits).
SmallGeometry ==
    [ ROW_BUFFER_BYTES         |-> 2,
      BANK_ROWS                |-> 26,
      HITMAP_COUNT             |-> 3,
      INDEX_SIZE_BYTES         |-> 1,
      RECORD_SIZE_BYTES        |-> 1,
      ROWS_FOR_RECORDS         |-> 16,
      ROWS_FOR_HITMAPS         |-> 6,
      RECORDS_PROCESSABLE      |-> 32,
      HITMAP_BASE_ROW          |-> 18,
      RECORD_BASE_ROW          |-> 2,
      PI_SUBINDEX_OFFSET_BYTES |-> 0,
      PI_ELEMENT_SIZE_BYTES    |-> 1,
      VALUE                    |-> <<0>>,
      NEGATE                   |-> 0,
      HITMAP_INDEX             |-> 1,
      SENTINEL_BACK            |-> 10,
      SENTINEL_BYTES           |-> 1 ]

\* The scenario geometry of the specification's section 8 with 6-byte rows:
\* two 3-byte records per row with a 2-byte key, records from row 3, two
\* hitmaps of one row each, hitmap 0 targeted.
ScenarioGeometry ==
    [ ROW_BUFFER_BYTES         |-> 6,
      BANK_ROWS                |-> 10,
      HITMAP_COUNT             |-> 2,
      INDEX_SIZE_BYTES         |-> 2,
      RECORD_SIZE_BYTES        |-> 3,
      ROWS_FOR_RECORDS         |-> 4,
      ROWS_FOR_HITMAPS         |-> 2,
      RECORDS_PROCESSABLE      |-> 8,
      HITMAP_BASE_ROW          |-> 7,
      RECORD_BASE_ROW          |-> 3,
      PI_SUBINDEX_OFFSET_BYTES |-> 0,
      PI_ELEMENT_SIZE_BYTES    |-> 2,
      VALUE                    |-> <<0, 0>>,
      NEGATE                   |-> 0,
      HITMAP_INDEX             |-> 0,
      SENTINEL_BACK            |-> 2,
      SENTINEL_BYTES           |-> 2 ]

\* A bank of more than 256 rows, two bytes wide: the utility zone is rows
\* 0..256, two rows hold four one-byte records, the sentinel row is the
\* second of them, two hitmaps of one row each follow, three rows of tail.
TallGeometry ==
    [ ROW_BUFFER_BYTES         |-> 2,
      BANK_ROWS                |-> 264,
      HITMAP_COUNT             |-> 2,
      INDEX_SIZE_BYTES         |-> 1,
      RECORD_SIZE_BYTES        |-> 1,
      ROWS_FOR_RECORDS         |-> 2,
      ROWS_FOR_HITMAPS         |-> 2,
      RECORDS_PROCESSABLE      |-> 4,
      HITMAP_BASE_ROW          |-> 259,
      RECORD_BASE_ROW          |-> 257,
      PI_SUBINDEX_OFFSET_BYTES |-> 0,
      PI_ELEMENT_SIZE_BYTES    |-> 1,
      VALUE                    |-> <<0>>,
      NEGATE                   |-> 0,
      HITMAP_INDEX             |-> 1,
      SENTINEL_BACK            |-> 1,
      SENTINEL_BYTES           |-> 1 ]

ScaledGeometries == {SmallGeometry, ScenarioGeometry, TallGeometry}

\* Every scaled geometry with every RECORDS_PROCESSABLE from 0 to its own
\* and with NEGATE 0 and 1.
Configurations ==
    UNION { { [g EXCEPT !.RECORDS_PROCESSABLE = n, !.NEGATE = neg] :
                  n \in 0..g.RECORDS_PROCESSABLE, neg \in {0, 1} } :
            g \in ScaledGeometries }

Rows  == 0..(cfg.BANK_ROWS - 1)
Bytes == 0..(cfg.ROW_BUFFER_BYTES - 1)

(***************************************************************************)
(* C arithmetic.                                                           *)
(***************************************************************************)
\* int / int: the quotient truncated toward zero (b > 0).
\* division rounding toward minus infinity, which C does not do
FloorDiv(a, b) == a \div b

\* a / b of two ints, b positive: the quotient truncated toward zero
CDiv(a, b) == IF a >= 0 THEN a \div b ELSE -((-a) \div b)

\* a & b of two unsigned values
RECURSIVE BitAnd(_, _)
BitAnd(a, b) ==
    IF a = 0 \/ b = 0 THEN 0
    ELSE (a % 2) * (b % 2) + 2 * BitAnd(a \div 2, b \div 2)

\* (uint8_t) x
U8(x) == x % 256

\* memcmp(buf + at, value, n): 0 when the n bytes are equal, else the sign
\* of the first difference.
memcmp(buf, at, value, n) ==
    IF \A z \in 0..(n - 1) : buf[at + z] = value[z + 1]
    THEN 0
    ELSE LET d == CHOOSE z \in 0..(n - 1) :
                      /\ buf[at + z] # value[z + 1]
                      /\ \A y \in 0..(z - 1) : buf[at + y] = value[y + 1]
         IN  IF buf[d + at] < value[d + 1] THEN -1 ELSE 1

\* rand(): a multiplicative congruential generator.  Its values are taken
\* from the multiples of 128, so that rand() % 256 is 0x00 or 0x80 and about
\* half of the generated bytes equal a byte of VALUE.
RandStep(x) == (x * 34) % 83
RandValue(x) == 128 * x

RECURSIVE RandAfter(_, _)
\* the generator's state after k calls from state x
RandAfter(x, k) == IF k = 0 THEN x ELSE RandAfter(RandStep(x), k - 1)

(***************************************************************************)
(* load_row, store_v0 (lines 47-58).                                       *)
(***************************************************************************)
\* a load_row that copies the resident row, then moves current_row
LoadedBufferOfResident(mem, row_index) ==
    [byte \in Bytes |-> mem[current_row][byte]]

\* a load_row whose copy loop stops one byte short
LoadedBufferShort(mem, row_index) ==
    [byte \in Bytes |-> IF byte < cfg.ROW_BUFFER_BYTES - 1
                         THEN mem[row_index][byte]
                         ELSE rowbuffer[byte]]

\* the row buffer after load_row(row_index) on memory mem
LoadedBuffer(mem, row_index) == [byte \in Bytes |-> mem[row_index][byte]]

\* a store_v0 whose copy runs on into the row after row_index
StoredMemorySpill(mem, acc, row_index) ==
    [r \in Rows |-> IF r = row_index \/ r = row_index + 1
                    THEN [byte \in Bytes |-> acc[byte]]
                    ELSE mem[r]]

\* memory mem after store_v0(row_index) with accumulator acc
StoredMemory(mem, acc, row_index) ==
    [mem EXCEPT ![row_index] = [byte \in Bytes |-> acc[byte]]]

(***************************************************************************)
(* create_memory (lines 60-103).                                           *)
(***************************************************************************)
\* an if / else-if chain whose first test is row <= RECORD_BASE_ROW
ZoneOfInclusive(r) ==
    IF r <= cfg.RECORD_BASE_ROW THEN "utility"
    ELSE IF r < cfg.HITMAP_BASE_ROW THEN "record"
    ELSE IF r < cfg.HITMAP_BASE_ROW + cfg.ROWS_FOR_HITMAPS THEN "hitmap"
    ELSE "tail"

\* the branch of the if / else-if chain that row r takes
ZoneOf(r) ==
    IF r < cfg.RECORD_BASE_ROW THEN "utility"
    ELSE IF r < cfg.HITMAP_BASE_ROW THEN "record"
    ELSE IF r < cfg.HITMAP_BASE_ROW + cfg.ROWS_FOR_HITMAPS THEN "hitmap"
    ELSE "tail"

\* a create_memory that clears the hitmap rows instead of setting them
FillByteHitmapZero(x, r, byte) ==
    CASE ZoneOf(r) = "record" ->
             U8(RandValue(RandAfter(x, (r - cfg.RECORD_BASE_ROW)
                                         * cfg.ROW_BUFFER_BYTES + byte + 1)))
      [] OTHER -> 0

\* the byte each branch writes; the data branch calls rand() once per byte,
\* rows and bytes in increasing order
FillByte(x, r, byte) ==
    CASE ZoneOf(r) = "utility" -> 0
      [] ZoneOf(r) = "record"  ->
             U8(RandValue(RandAfter(x, (r - cfg.RECORD_BASE_ROW)
                                         * cfg.ROW_BUFFER_BYTES + byte + 1)))
      [] ZoneOf(r) = "hitmap"  -> 255
      [] OTHER                 -> 0

\* a create_memory that plants no sentinel
NoSentinel(mem) == mem

\* lines 87-95: the zero sentinel
PlaceSentinel(mem) ==
    [mem EXCEPT ![cfg.HITMAP_BASE_ROW - cfg.SENTINEL_BACK] =
        [byte \in Bytes |-> IF byte < cfg.SENTINEL_BYTES THEN 0 ELSE @[byte]]]

\* memory as create_memory leaves it, rand() starting in state x
CreatedMemory(x) ==
    PlaceSentinel([r \in Rows |-> [byte \in Bytes |-> FillByte(x, r, byte)]])

\* number of rand() calls create_memory makes
RandCalls == (cfg.HITMAP_BASE_ROW - cfg.RECORD_BASE_ROW) * cfg.ROW_BUFFER_BYTES

create_memory ==
    /\ pc = "main"
    /\ memory' = CreatedMemory(rand_next)
    /\ rand_next' = RandAfter(rand_next, RandCalls)
    /\ v0' = [byte \in Bytes |-> 0]
    /\ rowbuffer' = LoadedBuffer(memory', 0)
    /\ current_row' = 0
    /\ mem0' = memory'
    /\ pc' = "created"
    /\ UNCHANGED <<cfg, record_index, row, offset, bitmap, bitdex, hitdex,
                   loads, cmps, stores, calls, rb_before, zrow, zone,
                   dump_file, hash_vars, query_vars, bench_vars>>

(***************************************************************************)
(* main (lines 119-211).                                                   *)
(***************************************************************************)
rows_per_hitmap      == cfg.ROWS_FOR_HITMAPS \div cfg.HITMAP_COUNT
targeted_hitmap_base == cfg.HITMAP_BASE_ROW + rows_per_hitmap * cfg.HITMAP_INDEX
records_per_row      == cfg.ROW_BUFFER_BYTES \div cfg.RECORD_SIZE_BYTES
rows_per_record      == cfg.RECORD_SIZE_BYTES \div cfg.ROW_BUFFER_BYTES

\* lines 125-133: the locals of main
StartCompliance ==
    /\ pc = "created"
    /\ bitmap' = 0
    /\ bitdex' = 0
    /\ hitdex' = 0
    /\ record_index' = 0
    /\ pc' = "for"
    /\ UNCHANGED <<cfg, rand_next, memory, rowbuffer, current_row, v0, row,
                   offset, mem0, loads, cmps, stores, calls, rb_before, zrow,
                   zone,
                   dump_file, hash_vars, query_vars, bench_vars>>

\* a layout with one record per row whatever the record size
RecordRowOnePerRow(i) == cfg.RECORD_BASE_ROW + i

\* lines 143-150: the row a record starts in
RecordRow(i) ==
    IF records_per_row <= 0
    THEN cfg.RECORD_BASE_ROW + i * rows_per_record
    ELSE cfg.RECORD_BASE_ROW + i \div records_per_row

\* lines 143-150: the offset of a record in its row
RecordOffset(i) ==
    IF records_per_row <= 0
    THEN 0
    ELSE (i % records_per_row) * cfg.RECORD_SIZE_BYTES

\* a scan that loads the row of every record
AlwaysLoad(r) == TRUE

\* line 153: is the record's row to be loaded?
NeedsLoad(r) == current_row # r

\* lines 137-155: the loop test, the record's address, the fetch
Fetch ==
    /\ pc = "for"
    /\ record_index < cfg.RECORDS_PROCESSABLE
    /\ row' = RecordRow(record_index)
    /\ offset' = RecordOffset(record_index)
    /\ UNCHANGED memory
    /\ IF NeedsLoad(row')
       THEN /\ rowbuffer' = LoadedBuffer(memory, row')
            /\ current_row' = row'
            /\ loads' = Append(loads, row')
       ELSE UNCHANGED <<rowbuffer, current_row, loads>>
    /\ pc' = "compare"
    /\ UNCHANGED <<cfg, rand_next, v0, record_index, bitmap, bitdex, hitdex,
                   mem0, cmps, stores, calls, rb_before, zrow, zone,
                   dump_file, hash_vars, query_vars, bench_vars>>

\* a compare whose result is flipped when NEGATE is set
MatchBitNegated(equal) ==
    IF cfg.NEGATE = 1 THEN (IF equal = 0 THEN 0 ELSE 1)
                      ELSE (IF equal = 0 THEN 1 ELSE 0)

\* line 175: equal == 0 ? 1 : 0
MatchBit(equal) == IF equal = 0 THEN 1 ELSE 0

\* the bookkeeping with the new bit packed from the high end
ShiftInLSB(bm, bit) == U8(bm \div 2 + 128 * bit)

\* the shift and add in a variable wider than 8 bits
ShiftInWide(bm, bit) == bm * 2 + bit

\* lines 174-175 and 195-196: bitmap <<= 1; bitmap += bit, in uint8_t
ShiftIn(bm, bit) == U8(U8(bm * 2) + bit)

\* a flush row computed from hitdex, not hitdex - 1
FlushRowNoDecrement(h) == targeted_hitmap_base + CDiv(h, cfg.ROW_BUFFER_BYTES)

\* the row of the targeted hitmap that a flush with h completed bytes writes
FlushRow(h) == targeted_hitmap_base + CDiv(h - 1, cfg.ROW_BUFFER_BYTES)

\* lines 157-190: the compare and the bookkeeping of one record
Compare ==
    /\ pc = "compare"
    /\ LET index_sub_offset == offset + cfg.PI_SUBINDEX_OFFSET_BYTES
           equal == memcmp(rowbuffer, index_sub_offset, cfg.VALUE,
                           cfg.PI_ELEMENT_SIZE_BYTES)
           shifted == ShiftIn(bitmap, MatchBit(equal))
       IN  /\ bitmap' = shifted
           /\ bitdex' = bitdex + 1
           /\ cmps' = Append(cmps, <<row, index_sub_offset, equal,
                                      MatchBit(equal)>>)
           /\ IF bitdex' % 8 = 0
              THEN /\ v0' = [v0 EXCEPT ![hitdex % cfg.ROW_BUFFER_BYTES] = shifted]
                   /\ hitdex' = hitdex + 1
                   /\ IF hitdex' % cfg.ROW_BUFFER_BYTES = 0
                      THEN /\ memory' = StoredMemory(memory, v0', FlushRow(hitdex'))
                           /\ stores' = Append(stores, <<FlushRow(hitdex'), v0'>>)
                      ELSE UNCHANGED <<memory, stores>>
              ELSE UNCHANGED <<v0, hitdex, memory, stores>>
    /\ record_index' = record_index + 1
    /\ pc' = "for"
    /\ UNCHANGED <<cfg, rand_next, rowbuffer, current_row, row, offset, mem0,
                   loads, calls, rb_before, zrow, zone,
                   dump_file, hash_vars, query_vars, bench_vars>>

\* line 137: the loop test fails
EndScan ==
    /\ pc = "for"
    /\ ~(record_index < cfg.RECORDS_PROCESSABLE)
    /\ pc' = "while"
    /\ UNCHANGED <<cfg, rand_next, memory, rowbuffer, current_row, v0,
                   record_index, row, offset, bitmap, bitdex, hitdex, mem0,
                   loads, cmps, stores, calls, rb_before, zrow, zone,
                   dump_file, hash_vars, query_vars, bench_vars>>

\* a padding loop that stops as soon as the byte in progress completes
DrainToByteOnly == bitdex % 8 # 0

\* a padding loop that runs to the end of the targeted hitmap
DrainToHitmapEnd == hitdex < rows_per_hitmap * cfg.ROW_BUFFER_BYTES

\* line 194: the test of the padding loop
DrainContinues == hitdex % cfg.ROW_BUFFER_BYTES # 0

\* line 196: the bit the padding loop shifts in
PadBit == 1

\* lines 194-204: one round of the padding loop
Drain ==
    /\ pc = "while"
    /\ DrainContinues
    /\ bitmap' = ShiftIn(bitmap, PadBit)
    /\ bitdex' = bitdex + 1
    /\ IF bitdex' % 8 = 0
       THEN /\ v0' = [v0 EXCEPT ![hitdex % cfg.ROW_BUFFER_BYTES] = bitmap']
            /\ hitdex' = hitdex + 1
       ELSE UNCHANGED <<v0, hitdex>>
    /\ UNCHANGED <<cfg, rand_next, memory, rowbuffer, current_row, pc,
                   record_index, row, offset, mem0, loads, cmps, stores,
                   calls, rb_before, zrow, zone,
                   dump_file, hash_vars, query_vars, bench_vars>>

\* line 205: the last store
FinalFlush ==
    /\ pc = "while"
    /\ ~DrainContinues
    /\ memory' = StoredMemory(memory, v0, FlushRow(hitdex))
    /\ stores' = Append(stores, <<FlushRow(hitdex), v0>>)
    /\ pc' = "dump"
    /\ UNCHANGED <<cfg, rand_next, rowbuffer, current_row, v0, record_index,
                   row, offset, bitmap, bitdex, hitdex, mem0, loads, cmps,
                   calls, rb_before, zrow, zone,
                   dump_file, hash_vars, query_vars, bench_vars>>

\* operator<< of an unsigned value under std::hex: the base-16 digits, most
\* significant first, lower case, no leading zero ("0" for zero).  A text
\* is a sequence of one-character strings.
HexDigits == <<"0", "1", "2", "3", "4", "5", "6", "7",
               "8", "9", "a", "b", "c", "d", "e", "f">>

RECURSIVE Hex(_)
Hex(value) ==
    IF value < 16 THEN <<HexDigits[value + 1]>>
    ELSE Append(Hex(value \div 16), HexDigits[(value % 16) + 1])

\* std::setw(width) without the fill: the text as it is
SetWNoFill(width, text) == text

\* std::setfill('0') << std::setw(width): fill characters go in front until
\* the text is width long; a longer text is written whole
RECURSIVE SetW(_, _)
SetW(width, text) ==
    IF Len(text) >= width THEN text ELSE SetW(width, <<"0">> \o text)

\* line 109: (uint8_t) row * ROW_BUFFER_BYTES; the cast binds to row alone
RowLabel(r) == U8(r) * cfg.ROW_BUFFER_BYTES

\* one line of the dump: the label, ":  ", then each byte followed by " ",
\* then "\n".  The separators are fixed, so a line is kept as its label
\* text and the sequence of its byte texts.
DumpLine(mem, r) ==
    [ label |-> SetW(8, Hex(RowLabel(r))),
      bytes |-> [k \in 1..cfg.ROW_BUFFER_BYTES |-> SetW(2, Hex(mem[r][k - 1]))] ]

\* dump_memory("test.memdump"), called once at the end of main
dump_memory ==
    /\ pc = "dump"
    /\ dump_file' = [k \in 1..cfg.BANK_ROWS |-> DumpLine(memory, k - 1)]
    /\ pc' = "done"
    /\ UNCHANGED <<cfg, rand_next, memory, rowbuffer, current_row, v0,
                   record_index, row, offset, bitmap, bitdex, hitdex, mem0,
                   loads, cmps, stores, calls, rb_before, zrow, zone,
                   hash_vars, query_vars, bench_vars>>

\* the hash map and the query kernels are other programs: not running
NoHashMap ==
    /\ bucket_size_ = 0 /\ buckets_ = <<>> /\ mask_ = 0 /\ allocated = 0
    /\ inserted = <<>> /\ growth = <<>>
NoQuery ==
    /\ word_bits = 0 /\ arg_n = 0 /\ arg_a0 = <<>> /\ arg_x = 0 /\ arg_m = <<>>
    /\ x_16u16 = <<>> /\ tasks = <<>> /\ kind = "none" /\ result = 0
    /\ ncalls = 0

NoSqb == data_ = <<>> /\ attempt = <<>> /\ accepted = {}
NoSq4 ==
    /\ hit_map = <<>> /\ payloads = <<>> /\ payload_index = 0 /\ a_10 = <<>>
    /\ task_acc = <<>> /\ sq4_trials = 0 /\ sq4_trial = 0 /\ consumed = <<>>
NoLayout ==
    /\ region_size = 0 /\ trials = 0 /\ chunk_size = 0 /\ data_size = 0
    /\ src_memory_region = <<>> /\ dst_memory_region = <<>> /\ z_index = 0
    /\ trial = 0 /\ chunk = 0 /\ writes = <<>>

\* no row classified yet
NoRows == [last |-> "none", utility |-> 0, record |-> 0, hitmap |-> 0, tail |-> 0]

\* the process before main: the globals are zero-initialised
Init ==
    /\ cfg \in Configurations
    /\ rand_next \in 1..MaxSeed
    /\ memory = [r \in Rows |-> [byte \in Bytes |-> 0]]
    /\ rowbuffer = [byte \in Bytes |-> 0]
    /\ current_row = 0
    /\ v0 = [byte \in Bytes |-> 0]
    /\ pc = "main"
    /\ record_index = 0
    /\ row = 0
    /\ offset = 0
    /\ bitmap = 0
    /\ bitdex = 0
    /\ hitdex = 0
    /\ mem0 = memory
    /\ loads = <<>>
    /\ cmps = <<>>
    /\ stores = <<>>
    /\ calls = <<>>
    /\ rb_before = rowbuffer
    /\ zrow = 0
    /\ zone = NoRows
    /\ dump_file = <<>>
    /\ NoHashMap
    /\ NoQuery
    /\ NoSqb
    /\ NoSq4
    /\ NoLayout

Next ==
    \/ create_memory
    \/ StartCompliance
    \/ Fetch
    \/ Compare
    \/ EndScan
    \/ Drain
    \/ FinalFlush
    \/ dump_memory

Spec == Init /\ [][Next]_vars

\* main is one sequential thread that nothing blocks: while a statement is
\* left to run, it runs
FairSpec == Spec /\ WF_vars(Next)

(***************************************************************************)
(* The row store by itself: load_row and store_v0 (lines 47-58) called in  *)
(* any order with any row, on a bank that create_memory has filled.        *)
(***************************************************************************)
\* A bank of four 2-byte rows: one utility row, one record row (it holds the
\* sentinel byte), one hitmap row, one tail row.
DriverGeometry ==
    [ ROW_BUFFER_BYTES         |-> 2,
      BANK_ROWS                |-> 4,
      HITMAP_COUNT             |-> 1,
      INDEX_SIZE_BYTES         |-> 1,
      RECORD_SIZE_BYTES        |-> 1,
      ROWS_FOR_RECORDS         |-> 1,
      ROWS_FOR_HITMAPS         |-> 1,
      RECORDS_PROCESSABLE      |-> 2,
      HITMAP_BASE_ROW          |-> 2,
      RECORD_BASE_ROW          |-> 1,
      PI_SUBINDEX_OFFSET_BYTES |-> 0,
      PI_ELEMENT_SIZE_BYTES    |-> 1,
      VALUE                    |-> <<0>>,
      NEGATE                   |-> 0,
      HITMAP_INDEX             |-> 0,
      SENTINEL_BACK            |-> 1,
      SENTINEL_BYTES           |-> 1 ]

\* the last two calls, with c the newest
Called(c) == IF calls = <<>> THEN <<c>> ELSE <<calls[Len(calls)], c>>

load_row(row_index) ==
    /\ pc = "rowstore"
    /\ rowbuffer' = LoadedBuffer(memory, row_index)
    /\ current_row' = row_index
    /\ calls' = Called(<<"load", row_index>>)
    /\ rb_before' = rowbuffer
    /\ UNCHANGED <<cfg, rand_next, memory, v0, pc, record_index, row, offset,
                   bitmap, bitdex, hitdex, mem0, loads, cmps, stores, zrow, zone,
                   dump_file, hash_vars, query_vars, bench_vars>>

store_v0(row_index) ==
    /\ pc = "rowstore"
    /\ memory' = StoredMemory(memory, v0, row_index)
    /\ calls' = Called(<<"store", row_index>>)
    /\ rb_before' = rowbuffer
    /\ UNCHANGED <<cfg, rand_next, rowbuffer, current_row, v0, pc, record_index,
                   row, offset, bitmap, bitdex, hitdex, mem0, loads, cmps,
                   stores, zrow, zone,
                   dump_file, hash_vars, query_vars, bench_vars>>

\* the state create_memory leaves, with an accumulator of zeros or of ones
InitRowStore ==
    /\ cfg = DriverGeometry
    /\ \E x \in 1..MaxSeed :
           /\ memory = CreatedMemory(x)
           /\ rand_next = RandAfter(x, RandCalls)
    /\ current_row = 0
    /\ rowbuffer = LoadedBuffer(memory, 0)
    /\ v0 \in {[byte \in Bytes |-> 0], [byte \in Bytes |-> 255]}
    /\ pc = "rowstore"
    /\ record_index = 0
    /\ row = 0
    /\ offset = 0
    /\ bitmap = 0
    /\ bitdex = 0
    /\ hitdex = 0
    /\ mem0 = memory
    /\ loads = <<>>
    /\ cmps = <<>>
    /\ stores = <<>>
    /\ calls = <<>>
    /\ rb_before = rowbuffer
    /\ zrow = 0
    /\ zone = NoRows
    /\ dump_file = <<>>
    /\ NoHashMap
    /\ NoQuery
    /\ NoSqb
    /\ NoSq4
    /\ NoLayout

NextRowStore ==
    \/ \E row_index \in Rows : load_row(row_index)
    \/ \E row_index \in Rows : store_v0(row_index)

SpecRowStore == InitRowStore /\ [][NextRowStore]_vars

(***************************************************************************)
(* The row loop of create_memory (lines 61-85) on the values of the        *)
(* source: which branch of the if / else-if chain each row takes.          *)
(***************************************************************************)
CreateMemoryRow ==
    /\ pc = "zones"
    /\ zrow < cfg.BANK_ROWS
    /\ zone' = [zone EXCEPT !.last = ZoneOf(zrow), ![ZoneOf(zrow)] = @ + 1]
    /\ zrow' = zrow + 1
    /\ UNCHANGED <<cfg, rand_next, memory, rowbuffer, current_row, v0, pc,
                   record_index, row, offset, bitmap, bitdex, hitdex, mem0,
                   loads, cmps, stores, calls, rb_before,
                   dump_file, hash_vars, query_vars, bench_vars>>

InitZones ==
    /\ cfg = RefGeometry
    /\ rand_next = 1
    /\ memory = <<>>
    /\ rowbuffer = <<>>
    /\ current_row = 0
    /\ v0 = <<>>
    /\ pc = "zones"
    /\ record_index = 0
    /\ row = 0
    /\ offset = 0
    /\ bitmap = 0
    /\ bitdex = 0
    /\ hitdex = 0
    /\ mem0 = <<>>
    /\ loads = <<>>
    /\ cmps = <<>>
    /\ stores = <<>>
    /\ calls = <<>>
    /\ rb_before = <<>>
    /\ zrow = 0
    /\ zone = NoRows
    /\ dump_file = <<>>
    /\ NoHashMap
    /\ NoQuery
    /\ NoSqb
    /\ NoSq4
    /\ NoLayout

NextZones == CreateMemoryRow

SpecZones == InitZones /\ [][NextZones]_vars

(***************************************************************************)
(* What the claims speak of, in the claims' own arithmetic.                *)
(***************************************************************************)
N == cfg.RECORDS_PROCESSABLE

\* bit k (0 = least significant) of byte x
BitOf(x, k) == (x \div (2 ^ k)) % 2

\* first row of the targeted hitmap and its bit capacity
TargetBase ==
    cfg.HITMAP_BASE_ROW
        + (cfg.ROWS_FOR_HITMAPS \div cfg.HITMAP_COUNT) * cfg.HITMAP_INDEX
Capacity ==
    (cfg.ROWS_FOR_HITMAPS \div cfg.HITMAP_COUNT) * cfg.ROW_BUFFER_BYTES * 8

\* the bit of the targeted hitmap at position i, read from memory
HitBit(i) ==
    BitOf(memory[TargetBase + ((i \div 8) \div cfg.ROW_BUFFER_BYTES)]
                [(i \div 8) % cfg.ROW_BUFFER_BYTES],
          7 - (i % 8))

\* record i's key field, as create_memory left it, equals VALUE
KeyEquals(i) ==
    LET rpr == cfg.ROW_BUFFER_BYTES \div cfg.RECORD_SIZE_BYTES
        r   == cfg.RECORD_BASE_ROW + i \div rpr
        at  == (i % rpr) * cfg.RECORD_SIZE_BYTES + cfg.PI_SUBINDEX_OFFSET_BYTES
    IN  \A z \in 0..(cfg.PI_ELEMENT_SIZE_BYTES - 1) :
            mem0[r][at + z] = cfg.VALUE[z + 1]

\* C1: after the run of a record count that is a multiple of 8 and fits the
\* targeted hitmap, the hitmap bit of every scanned record i (MSB-first in
\* byte i div 8 of the targeted hitmap) is 1 exactly when the record's key
\* field, as create_memory left it, equals VALUE byte for byte.
C1_EqualityScanResult ==
    (pc = "done" /\ N % 8 = 0 /\ N <= Capacity)
        => \A i \in 0..(N - 1) : (HitBit(i) = 1) <=> KeyEquals(i)

\* 16 records, exactly {0, 3, 5} of the first 8 match: the first byte of the
\* targeted hitmap is 0b10010100.
C1_Witness ==
    /\ pc = "done"
    /\ cfg = [SmallGeometry EXCEPT !.RECORDS_PROCESSABLE = 16]
    /\ {i \in 0..7 : KeyEquals(i)} = {0, 3, 5}
    /\ memory[TargetBase][0] = 148

\* C2: after the run of a record count that is not a multiple of 8, the
\* hitmap byte of the last scanned record holds the scanned records' results
\* in its high-order bits and 1 in every unused low-order bit.
C2_PaddingPersisted ==
    (pc = "done" /\ N % 8 # 0 /\ N <= Capacity)
        => \A i \in (8 * ((N - 1) \div 8))..(8 * ((N - 1) \div 8) + 7) :
               IF i < N THEN (HitBit(i) = 1) <=> KeyEquals(i)
                        ELSE HitBit(i) = 1

\* C3: with no record to scan, the last store writes an all-ones accumulator
\* into the first row of the targeted hitmap, which still reads as all set.
C3_EmptyScanAllOnes ==
    (pc = "done" /\ N = 0)
        => /\ stores = << <<TargetBase, [byte \in Bytes |-> 255]>> >>
           /\ \A byte \in Bytes : memory[TargetBase][byte] = 255

\* C4: after the run of a positive record count that is a multiple of 8 and
\* fits the targeted hitmap, every bit of the targeted hitmap at a position
\* from N up to the capacity is 1.
C4_TrailingBitsSet ==
    (pc = "done" /\ N > 0 /\ N % 8 = 0 /\ N <= Capacity)
        => \A i \in N..(Capacity - 1) : HitBit(i) = 1

\* A run that flushed a full accumulator row during the scan and then a
\* partly filled one, whose first byte is a result byte with a clear bit.
C4_Witness ==
    /\ pc = "done"
    /\ N % 8 = 0
    /\ N < Capacity
    /\ Len(stores) = 2
    /\ stores[1][1] # stores[2][1]
    /\ stores[1][2][(hitdex - 1) % cfg.ROW_BUFFER_BYTES] # 255
    /\ \E i \in 0..(N - 1) : HitBit(i) = 0

\* C5: from the end of create_memory on, the row buffer holds the bytes of
\* memory row current_row.
C5_RowBufferCoherent ==
    pc # "main" => \A byte \in Bytes : rowbuffer[byte] = memory[current_row][byte]

\* The scan goes on after it has loaded record rows and stored a row of v0.
C5_Witness ==
    /\ pc = "for"
    /\ record_index < N
    /\ Len(loads) >= 2
    /\ Len(stores) >= 1
    /\ \E byte \in Bytes : rowbuffer[byte] # 0

\* records per row, and the row of record i, as the claims state them
RecordsPerRow == cfg.ROW_BUFFER_BYTES \div cfg.RECORD_SIZE_BYTES
RowOfRecord(i) == cfg.RECORD_BASE_ROW + i \div RecordsPerRow

\* C6: the scan loads a record's row exactly when it is not the resident
\* row; the rows loaded are strictly increasing, the resident row is the
\* last one loaded, and once the scan is over they are the rows
\* RECORD_BASE_ROW .. RECORD_BASE_ROW + ceil(N / RecordsPerRow) - 1, each once.
C6_RowResidency ==
    /\ [](/\ \A k \in 1..(Len(loads) - 1) : loads[k] < loads[k + 1]
          /\ loads # <<>> => current_row = loads[Len(loads)]
          /\ pc = "compare" => current_row = RowOfRecord(record_index)
          /\ pc \in {"while", "done"} =>
                 loads = [k \in 1..((N + RecordsPerRow - 1) \div RecordsPerRow)
                             |-> cfg.RECORD_BASE_ROW + k - 1])
    /\ [][(pc = "for" /\ pc' = "compare") =>
              IF current_row # RowOfRecord(record_index)
              THEN loads' = Append(loads, RowOfRecord(record_index))
              ELSE loads' = loads]_vars

\* A finished scan whose last row holds one record only.
C6_Witness ==
    /\ pc = "done"
    /\ N % RecordsPerRow # 0
    /\ Len(loads) = 3

\* C9: right after create_memory every byte of the utility rows and of the
\* tail rows is 0x00, every byte of the hitmap rows is 0xFF, v0 is all zero,
\* current_row is 0 and the row buffer equals row 0, all zero.
C9_StateAfterCreateMemory ==
    pc = "created" =>
        /\ \A r \in 0..(cfg.RECORD_BASE_ROW - 1) :
               \A byte \in Bytes : memory[r][byte] = 0
        /\ \A r \in (cfg.HITMAP_BASE_ROW + cfg.ROWS_FOR_HITMAPS)..(cfg.BANK_ROWS - 1) :
               \A byte \in Bytes : memory[r][byte] = 0
        /\ \A r \in cfg.HITMAP_BASE_ROW..(cfg.HITMAP_BASE_ROW + cfg.ROWS_FOR_HITMAPS - 1) :
               \A byte \in Bytes : memory[r][byte] = 255
        /\ \A byte \in Bytes : v0[byte] = 0
        /\ current_row = 0
        /\ \A byte \in Bytes : rowbuffer[byte] = 0 /\ rowbuffer[byte] = memory[0][byte]

\* create_memory has run: the record rows hold generated bytes.
C9_Witness ==
    /\ pc = "created"
    /\ \E r \in cfg.RECORD_BASE_ROW..(cfg.HITMAP_BASE_ROW - 1) :
           \E byte \in Bytes : memory[r][byte] # 0

\* the sentinel's row, and the record whose key field starts that row
SentinelRow == cfg.HITMAP_BASE_ROW - cfg.SENTINEL_BACK
SentinelRecord == (SentinelRow - cfg.RECORD_BASE_ROW) * RecordsPerRow

\* compare k of the scan reads sentinel bytes
ReadsSentinel(k) == cmps[k][1] = SentinelRow /\ cmps[k][2] < cfg.SENTINEL_BYTES

\* C10 as stated: the scan compares the sentinel bytes for no record.
C10_SentinelNotConsumed ==
    \A k \in 1..Len(cmps) : ~ReadsSentinel(k)

\* C10 amended: the sentinel is the key field of record SentinelRecord and of
\* no other; when the scan reaches that record it has loaded the sentinel's
\* row, the compare finds the key equal to VALUE, and after a run of a
\* multiple of 8 records that fits the hitmap the record's bit is 1.
C10_SentinelIsAKey ==
    /\ \A k \in 1..Len(cmps) : ReadsSentinel(k) <=> (k - 1 = SentinelRecord)
    /\ Len(cmps) > SentinelRecord =>
           /\ cmps[SentinelRecord + 1][3] = 0
           /\ \E j \in 1..Len(loads) : loads[j] = SentinelRow
    /\ (pc = "done" /\ N % 8 = 0 /\ SentinelRecord < N /\ N <= Capacity)
           => HitBit(SentinelRecord) = 1

\* A finished run that scanned the sentinel's record and at least one record
\* that does not match.
C10_Witness ==
    /\ pc = "done"
    /\ N % 8 = 0
    /\ SentinelRecord < N
    /\ ReadsSentinel(SentinelRecord + 1)
    /\ HitBit(SentinelRecord) = 1
    /\ \E i \in 0..(N - 1) : HitBit(i) = 0

\* C7: when the driver calls load_row(r) right after load_row(r), the second
\* call leaves every byte of the row buffer as it was; after any load_row(r)
\* current_row is r.
C7_LoadIdempotent ==
    pc = "rowstore" =>
        /\ (calls # <<>> /\ calls[Len(calls)][1] = "load")
               => current_row = calls[Len(calls)][2]
        /\ (Len(calls) = 2 /\ calls[1][1] = "load" /\ calls[2] = calls[1])
               => \A byte \in Bytes : rowbuffer[byte] = rb_before[byte]

\* load_row(1) twice in a row, on a bank whose row 1 is not all zero and
\* differs from the row that was resident before.
C7_Witness ==
    /\ pc = "rowstore"
    /\ calls = << <<"load", 1>>, <<"load", 1>> >>
    /\ \E byte \in Bytes : rowbuffer[byte] # memory[0][byte]

\* the four row ranges of claim C8, as [lo, hi)
ZoneNames == {"utility", "record", "hitmap", "tail"}
ZoneLo(z) ==
    CASE z = "utility" -> 0
      [] z = "record"  -> 514
      [] z = "hitmap"  -> 32734
      [] z = "tail"    -> 32734 + 24
ZoneHi(z) ==
    CASE z = "utility" -> 514
      [] z = "record"  -> 32734
      [] z = "hitmap"  -> 32734 + 24
      [] z = "tail"    -> 32768

\* C8: in the geometry of the source (R = 32768, RecordBaseRow = 514,
\* RowsForRecords = 32220, HitmapBaseRow = 32734, RowsForHitmaps = 24) the
\* utility, record, hitmap and tail ranges are pairwise disjoint, every row of
\* [0, R) lies in exactly one of them, create_memory's row loop takes for
\* each row the branch of the range the row lies in, and
\* RecordBaseRow + RowsForRecords <= HitmapBaseRow.
C8_ZonePartition ==
    pc = "zones" =>
        /\ cfg.BANK_ROWS = 32768 /\ cfg.RECORD_BASE_ROW = 514
        /\ cfg.ROWS_FOR_RECORDS = 32220 /\ cfg.HITMAP_BASE_ROW = 32734
        /\ cfg.ROWS_FOR_HITMAPS = 24
        /\ cfg.RECORD_BASE_ROW + cfg.ROWS_FOR_RECORDS <= cfg.HITMAP_BASE_ROW
        /\ \A y \in ZoneNames : \A z \in ZoneNames :
               y # z => (ZoneHi(y) <= ZoneLo(z) \/ ZoneHi(z) <= ZoneLo(y))
        /\ zrow > 0 =>
               /\ Cardinality({z \in ZoneNames :
                                   ZoneLo(z) <= zrow - 1 /\ zrow - 1 < ZoneHi(z)}) = 1
               /\ ZoneLo(zone.last) <= zrow - 1 /\ zrow - 1 < ZoneHi(zone.last)
        /\ zrow = cfg.BANK_ROWS =>
               /\ zone.utility = 514 /\ zone.record = 32220
               /\ zone.hitmap = 24 /\ zone.tail = 10

\* The row loop has classified every row of the bank.
C8_Witness ==
    /\ pc = "zones"
    /\ zrow = 32768
    /\ zone.last = "tail"
    /\ zone.utility + zone.record + zone.hitmap + zone.tail = 32768

\* result byte j of the scan: the results of records 8j .. 8j + 7, MSB first
ResultByte(j) ==
    LET bit(i) == IF KeyEquals(i) THEN 1 ELSE 0
    IN  128 * bit(8 * j) + 64 * bit(8 * j + 1) + 32 * bit(8 * j + 2)
          + 16 * bit(8 * j + 3) + 8 * bit(8 * j + 4) + 4 * bit(8 * j + 5)
          + 2 * bit(8 * j + 6) + bit(8 * j + 7)

\* C11: while the scan runs, v0 has been stored once for every W completed
\* result bytes (hitdex div W stores so far); the k-th store (k = 0, 1, ...)
\* wrote row TargetBase + k with the result bytes k*W .. (k+1)*W - 1, so the
\* stores hit consecutive, strictly increasing rows.
C11_FlushAddressing ==
    pc \in {"for", "compare"} =>
        /\ Len(stores) = hitdex \div cfg.ROW_BUFFER_BYTES
        /\ \A k \in 1..Len(stores) :
               /\ stores[k][1] = TargetBase + (k - 1)
               /\ \A byte \in Bytes :
                      /\ stores[k][2][byte] =
                             ResultByte((k - 1) * cfg.ROW_BUFFER_BYTES + byte)
                      /\ memory[TargetBase + (k - 1)][byte] = stores[k][2][byte]

\* The scan has stored two accumulator rows, the first with a hit and a miss.
C11_Witness ==
    /\ pc = "for"
    /\ Len(stores) = 2
    /\ stores[1][1] + 1 = stores[2][1]
    /\ stores[1][2][0] \notin {0, 255}

\* byte j of the targeted hitmap after a run, from the keys and N alone:
\* the result bytes, then (unless the completed bytes fill whole rows) the
\* last byte padded with ones and ones to the end of its row; rows never
\* stored hold 0xFF, and a run of fewer than 8 records leaves a first row of
\* zeros
ExpectedHitmapByte(j) ==
    LET done == N \div 8
        bit(i) == IF i < N THEN (IF KeyEquals(i) THEN 1 ELSE 0) ELSE 1
    IN  IF j < done THEN ResultByte(j)
        ELSE IF done = 0 /\ j < cfg.ROW_BUFFER_BYTES THEN 0
        ELSE IF j = done /\ N % 8 # 0 /\ done % cfg.ROW_BUFFER_BYTES # 0
        THEN 128 * bit(8 * j) + 64 * bit(8 * j + 1) + 32 * bit(8 * j + 2)
               + 16 * bit(8 * j + 3) + 8 * bit(8 * j + 4) + 4 * bit(8 * j + 5)
               + 2 * bit(8 * j + 6) + bit(8 * j + 7)
        ELSE 255

\* memory after a run, from memory as create_memory left it and N alone
ExpectedFinalByte(r, byte) ==
    IF /\ TargetBase <= r
       /\ r < TargetBase + cfg.ROWS_FOR_HITMAPS \div cfg.HITMAP_COUNT
    THEN ExpectedHitmapByte((r - TargetBase) * cfg.ROW_BUFFER_BYTES + byte)
    ELSE mem0[r][byte]

\* C12: with NEGATE 0 and with NEGATE 1 alike, the bit packed for a record
\* is 1 exactly when its key equals VALUE, and memory after the run is the
\* same function of the memory contents, the predicate and N: the two runs
\* end in byte-identical memory.
C12_NegateIgnored ==
    /\ \A k \in 1..Len(cmps) :
           cmps[k][4] = (IF KeyEquals(k - 1) THEN 1 ELSE 0)
    /\ pc = "done" =>
           \A r \in Rows : \A byte \in Bytes :
               memory[r][byte] = ExpectedFinalByte(r, byte)

\* A finished run with NEGATE set that packed a hit and a miss.
C12_Witness ==
    /\ pc = "done"
    /\ cfg.NEGATE = 1
    /\ \E k \in 1..Len(cmps) : cmps[k][4] = 1
    /\ \E k \in 1..Len(cmps) : cmps[k][4] = 0

\* reading a dump text back: the value of a hex digit, and of a text of them
DigitValue(c) == CHOOSE d \in 0..15 : HexDigits[d + 1] = c

RECURSIVE ParseHex(_)
ParseHex(text) ==
    IF text = <<>> THEN 0
    ELSE 16 * ParseHex(SubSeq(text, 1, Len(text) - 1))
           + DigitValue(text[Len(text)])

IsHexText(text) == \A k \in 1..Len(text) : \E d \in 1..16 : HexDigits[d] = text[k]

\* C13: the label at the start of row r's dump line is the byte address
\* r * W in hex, so labels are distinct and strictly increasing down the
\* file.  The code prints (uint8_t) row * W: with more than 256 rows the
\* label of row 256 is 0 again, so this is violated.
C13_LabelIsByteAddress ==
    pc = "done" =>
        /\ \A r \in Rows :
               ParseHex(dump_file[r + 1].label) = r * cfg.ROW_BUFFER_BYTES
        /\ \A r \in Rows \ {0} :
               ParseHex(dump_file[r].label) < ParseHex(dump_file[r + 1].label)

\* C14: the dump has exactly R lines in row order, each with exactly W
\* two-hex-digit byte texts in byte order, and reading the byte texts of
\* line r back gives memory[r] byte for byte; the dump step itself leaves
\* memory, rowbuffer, current_row and v0 as they were.
C14_DumpReadsBack ==
    pc = "done" =>
        /\ Len(dump_file) = cfg.BANK_ROWS
        /\ \A r \in Rows :
               /\ Len(dump_file[r + 1].bytes) = cfg.ROW_BUFFER_BYTES
               /\ \A byte \in Bytes :
                      LET text == dump_file[r + 1].bytes[byte + 1]
                      IN  /\ Len(text) = 2
                          /\ IsHexText(text)
                          /\ ParseHex(text) = memory[r][byte]

C14_DumpRoundTrip ==
    /\ []C14_DumpReadsBack
    /\ [][pc = "dump" => UNCHANGED <<memory, rowbuffer, current_row, v0>>]_vars

\* A finished dump of a bank that holds a zero byte, a 0x80 key byte and a
\* result byte with hits and misses.
C14_Witness ==
    /\ pc = "done"
    /\ Len(dump_file) = cfg.BANK_ROWS
    /\ \E r \in Rows : \E byte \in Bytes : memory[r][byte] = 0
    /\ \E r \in Rows : \E byte \in Bytes : memory[r][byte] = 128
    /\ \E r \in Rows : \E byte \in Bytes : memory[r][byte] \notin {0, 128, 255}

\* the padding loop is over: it has been left, or its test is false
Drained == pc \in {"dump", "done"} \/ (pc = "while" /\ ~DrainContinues)

C20_FinalFlush ==
    LET W == cfg.ROW_BUFFER_BYTES
        scanned == (N \div 8) \div W
        lastRow == IF hitdex = 0 THEN TargetBase
                   ELSE TargetBase + (hitdex - 1) \div W
    IN  /\ pc = "while" => Len(stores) = scanned
        /\ pc \in {"dump", "done"} =>
               /\ Len(stores) = scanned + 1
               /\ stores[Len(stores)] = <<lastRow, v0>>
               /\ TargetBase <= lastRow
               /\ lastRow < TargetBase + cfg.ROWS_FOR_HITMAPS \div cfg.HITMAP_COUNT
               /\ \A byte \in Bytes : memory[lastRow][byte] = v0[byte]

\* A finished run of fewer than 8 records: the one store is the final
\* flush, with hitdex 0, at the targeted hitmap's first row.
C20_Witness ==
    /\ pc = "done"
    /\ hitdex = 0
    /\ stores = <<(<<TargetBase, v0>>)>>

\* ------------------------------------------------------------------------
\* BlimpHashMap (compliance/demos/hash-map/blimp_hash_map.hpp).
\*
\* A bucket is bucket_size_ bytes: bucket_capacity_ items of a 4-byte key
\* and a 4-byte value, then a 4-byte count and a 4-byte next.  It is kept
\* as a record of the items (a sequence of <<key, value>>), count and next.
\* buckets_ is the vector; bucket i of the code is buckets_[i + 1].
\* bucket_size_ is 128 in the source; the model runs the same code with
\* buckets of 16 and 24 bytes, which hold 1 and 2 items.
\* ------------------------------------------------------------------------
MaxCapacity == 3
MaxKey == 3
MaxValue == 2
MaxInserts == 4

BucketSizes == {16, 24}

\* the 32-bit pattern of all ones, which a 32-bit integer of the model
\* checker holds as -1
UINT32_MAX == -1

bucket_capacity_ == (bucket_size_ - 8) \div 8

\* Bucket(): data_() zeroes every byte, then count = 0 and next = UINT32_MAX
EmptyBucket ==
    [ items |-> [i \in 1..bucket_capacity_ |-> <<0, 0>>],
      count |-> 0,
      next  |-> UINT32_MAX ]

\* the constructor's loop: the least power of two that is at least k
RECURSIVE NumBuckets(_, _)
NumBuckets(num_buckets, k) ==
    IF num_buckets < k THEN NumBuckets(num_buckets * 2, k) ELSE num_buckets

\* (3634946921 * key + 2096170329) & mask_.  mask_ is below 2^16 here, so
\* the value is decided by the low 16 bits of the sum, which are computed
\* from the low 16 bits of the two constants (58217 and 1369) and of key.
hash(key) == BitAnd((58217 * (key % 65536) + 1369) % 65536, mask_)

\* lines 43-45: bucket is a reference to one Bucket, so each
\* "bucket = buckets_[*bucket.next()]" copies the next bucket of the chain
\* over the referenced one; the loop ends with the referenced bucket holding
\* a copy of the last bucket of its chain
RECURSIVE AdvanceToEnd(_, _)
AdvanceToEnd(vec, bucket) ==
    IF bucket.next # UINT32_MAX
    THEN AdvanceToEnd(vec, vec[bucket.next + 1])
    ELSE bucket

\* the index of the last bucket of the chain that starts at bucket_index
RECURSIVE ChainEnd(_, _)
ChainEnd(vec, bucket_index) ==
    IF vec[bucket_index + 1].next # UINT32_MAX
    THEN ChainEnd(vec, vec[bucket_index + 1].next)
    ELSE bucket_index

\* lines 59-63: the item goes to slot count, count goes up by one
WriteItem(bucket, key, value) ==
    [bucket EXCEPT !.items[bucket.count + 1] = <<key, value>>,
                   !.count = bucket.count + 1]

\* the capacities a vector may choose when it outgrows size elements
GrownCapacities(size) ==
    {IF size \div 2 = 0 THEN size + 1 ELSE size + size \div 2, 2 * size}

\* the compliance program is another program: its bank is not in use
NoCompliance ==
    /\ cfg = DriverGeometry
    /\ rand_next = 1
    /\ memory = [r \in Rows |-> [byte \in Bytes |-> 0]]
    /\ rowbuffer = [byte \in Bytes |-> 0]
    /\ current_row = 0
    /\ v0 = [byte \in Bytes |-> 0]
    /\ record_index = 0
    /\ row = 0
    /\ offset = 0
    /\ bitmap = 0
    /\ bitdex = 0
    /\ hitdex = 0
    /\ mem0 = memory
    /\ loads = <<>>
    /\ cmps = <<>>
    /\ stores = <<>>
    /\ calls = <<>>
    /\ rb_before = rowbuffer
    /\ zrow = 0
    /\ zone = NoRows
    /\ dump_file = <<>>

\* BlimpHashMap(capacity)
InitHashMap ==
    /\ bucket_size_ \in BucketSizes
    /\ \E capacity \in 0..MaxCapacity :
           LET k == capacity \div bucket_capacity_
                        + (IF capacity % bucket_capacity_ # 0 THEN 1 ELSE 0)
               num_buckets == NumBuckets(1, k)
           IN  /\ buckets_ = [i \in 1..num_buckets |-> EmptyBucket]
               /\ allocated = num_buckets
               /\ mask_ = num_buckets - 1
    /\ inserted = <<>>
    /\ growth = <<>>
    /\ pc = "hashmap"
    /\ NoCompliance
    /\ NoQuery
    /\ NoSqb
    /\ NoSq4
    /\ NoLayout

\* insert(key, value).  When the referenced bucket is full the code sets its
\* next, appends a bucket and assigns the new bucket to the reference.  If
\* emplace_back moved the vector's storage the reference dangles and every
\* later access through it is undefined: either the writes fall into the
\* released storage and are lost, or the process is brought down.
insert(key, value) ==
    LET h == hash(key) + 1
        advanced == [buckets_ EXCEPT ![h] = AdvanceToEnd(buckets_, buckets_[h])]
        linked == [advanced EXCEPT ![h].next = Len(advanced)]
        grown == Append(linked, EmptyBucket)
    IN  /\ pc = "hashmap"
        /\ Len(inserted) < MaxInserts
        /\ \A k \in 1..Len(inserted) : inserted[k][1] # key
        /\ inserted' = Append(inserted, <<key, value>>)
        /\ growth' = IF advanced[h].count = bucket_capacity_
                     THEN [ end    |-> ChainEnd(buckets_, hash(key)),
                            before |-> buckets_[ChainEnd(buckets_, hash(key)) + 1],
                            pair   |-> <<key, value>>,
                            new    |-> Len(buckets_) ]
                     ELSE <<>>
        /\ IF advanced[h].count = bucket_capacity_
           THEN /\ Len(advanced) # UINT32_MAX
                /\ IF Len(advanced) = allocated
                   THEN /\ allocated' \in GrownCapacities(allocated)
                        /\ buckets_' = grown
                        /\ pc' \in {"hashmap", "aborted"}
                   ELSE /\ allocated' = allocated
                        /\ buckets_' = [grown EXCEPT ![h] =
                                           WriteItem(EmptyBucket, key, value)]
                        /\ pc' = pc
           ELSE /\ buckets_' = [advanced EXCEPT ![h] =
                                   WriteItem(advanced[h], key, value)]
                /\ allocated' = allocated
                /\ pc' = pc
        /\ UNCHANGED <<bucket_size_, mask_>>
        /\ UNCHANGED <<cfg, rand_next, memory, rowbuffer, current_row, v0,
                       record_index, row, offset, bitmap, bitdex, hitdex,
                       mem0, loads, cmps, stores, calls, rb_before, zrow,
                       zone, dump_file, query_vars, bench_vars>>

\* the absent result of get
NULL == <<>>

\* get(key): every one of the bucket_capacity_ slots of a bucket is
\* compared, whatever its count; the result is the address of the value,
\* kept as <<bucket index, slot>>, or NULL at the end of the chain
RECURSIVE GetFrom(_, _)
GetFrom(bucket_index, key) ==
    LET bucket == buckets_[bucket_index + 1]
        found == {i \in 1..bucket_capacity_ : bucket.items[i][1] = key}
    IN  IF found # {}
        THEN <<bucket_index, CHOOSE i \in found : \A j \in found : i <= j>>
        ELSE IF bucket.next # UINT32_MAX THEN GetFrom(bucket.next, key)
        ELSE NULL

get(key) == GetFrom(hash(key), key)

\* *p for a non-null result p of get
Deref(p) == buckets_[p[1] + 1].items[p[2]][2]

NextHashMap == \E key \in 0..MaxKey : \E value \in 1..MaxValue : insert(key, value)

SpecHashMap == InitHashMap /\ [][NextHashMap]_vars

\* C15: after inserting pairs with pairwise distinct keys, get of every
\* inserted key is non-null and points to the value inserted with it, also
\* when more keys than a bucket holds hash to one bucket.  Violated: the
\* insert that finds its bucket full loses pairs.
C15_InsertGetRoundTrip ==
    pc = "hashmap" =>
        \A k \in 1..Len(inserted) :
            /\ get(inserted[k][1]) # NULL
            /\ Deref(get(inserted[k][1])) = inserted[k][2]

\* C16: get of a key that was never inserted is NULL, key 0 included.
\* Violated: the zeroed slots of a bucket compare equal to key 0.
C16_AbsentKeyIsNull ==
    pc = "hashmap" =>
        \A key \in 0..MaxKey :
            (\A k \in 1..Len(inserted) : inserted[k][1] # key) => get(key) = NULL

\* ------------------------------------------------------------------------
\* simple_query_1 (src/cpu/src/simple_queries/simple_query_1.hpp) as run.cpp
\* calls it: SELECT COUNT(*) FROM a WHERE a0 = x, as a filter that sets one
\* bit of the mask m per record and an aggregate that counts the set bits.
\*
\* A word of m has 32 bits in the source; the model runs the same code with
\* words of word_bits = 4 bits, so that two words and a remainder are 9
\* records.  Record i of the code is arg_a0[i + 1], word w is arg_m[w + 1].
\* The two parallel_for tasks of a call own the word ranges [begin, end);
\* a task of filter does "m[i / 32] |= bit" as a read and a later write.
\* ------------------------------------------------------------------------
MaxN == 9
MaxCalls == 2

WordWidths == {4}

\* the values of column a0 and of x: run.cpp's x and its neighbour
Values == {1990, 1991}

\* a | (bit << k) for a bit of 0 or 1
BitOr(a, bit, k) ==
    IF bit = 0 \/ (a \div (2 ^ k)) % 2 = 1 THEN a ELSE a + 2 ^ k

\* _mm_popcnt_u32
RECURSIVE popcnt(_)
popcnt(word) == IF word = 0 THEN 0 ELSE (word % 2) + popcnt(word \div 2)

\* end_to_end_chunk(begin, end, a0, x)
RECURSIVE end_to_end_chunk(_, _, _, _)
end_to_end_chunk(begin, end, col, xx) ==
    IF begin >= end THEN 0
    ELSE (IF col[begin + 1] = xx THEN 1 ELSE 0)
             + end_to_end_chunk(begin + 1, end, col, xx)

\* end_to_end(n, a0, x): the chunks' counts are added, in any grouping
end_to_end(nn, col, xx) == end_to_end_chunk(0, nn, col, xx)

\* filter_chunk(begin, end, a0, x, m) run alone, start to end
RECURSIVE filter_chunk(_, _, _, _, _)
filter_chunk(begin, end, col, xx, mm) ==
    IF begin >= end THEN mm
    ELSE filter_chunk(begin + 1, end, col, xx,
             [mm EXCEPT ![(begin \div word_bits) + 1] =
                 BitOr(@, IF col[begin + 1] = xx THEN 1 ELSE 0,
                       begin % word_bits)])

\* _mm256_cmpeq_epi16 on one 16-bit lane: all ones or zero
cmpeq_epi16(a, b) == IF a = b THEN 65535 ELSE 0

\* _mm256_packs_epi16 on one lane: the 16-bit value read as signed and
\* saturated to 8 bits, as the unsigned byte
packs_epi16(lane) ==
    LET signed == IF lane >= 32768 THEN lane - 65536 ELSE lane
        clamped == IF signed > 127 THEN 127
                   ELSE IF signed < -128 THEN -128 ELSE signed
    IN  IF clamped < 0 THEN clamped + 256 ELSE clamped

\* the record of the chunk whose compare result is byte b of the packed
\* register: packs works on each 128-bit half of its operands, so bytes come
\* as quarter 0 of the first operand, quarter 0 of the second, quarter 1 of
\* the first, quarter 1 of the second (a quarter is 8 records in the source)
PackedLane(b) ==
    LET q == word_bits \div 4
    IN  IF b < q THEN b
        ELSE IF b < 2 * q THEN 2 * q + (b - q)
        ELSE IF b < 3 * q THEN q + (b - 2 * q)
        ELSE 3 * q + (b - 3 * q)

\* the rest of filter_chunk_avx once x_16u16 has the register value reg:
\* bit b of the result is the top bit of byte b (_mm256_movemask_epi8)
RECURSIVE movemask(_, _, _, _)
movemask(b, base, col, reg) ==
    IF b >= word_bits THEN 0
    ELSE (packs_epi16(cmpeq_epi16(reg, col[base + PackedLane(b) + 1])) \div 128)
             * 2 ^ b
           + movemask(b + 1, base, col, reg)

\* line 34: "static __m256i x_16u16 = _mm256_set1_epi16((short)x)": the
\* initialiser runs on the first call only; <<>> is "not yet initialised"
StaticInit(current, xx) == IF current = <<>> THEN <<xx>> ELSE current

\* a split in which the two tasks share the word before the split point
PartitionsOverlapping(words) ==
    { << [begin |-> 0, end |-> split, i |-> 0, loaded |-> <<>>],
         [begin |-> IF split > 0 THEN split - 1 ELSE 0, end |-> words,
          i |-> (IF split > 0 THEN split - 1 ELSE 0) * word_bits,
          loaded |-> <<>>] >> : split \in 0..words }

\* the ways parallel_for splits the word range [0, words) over two tasks
Partitions(words) ==
    { << [begin |-> 0, end |-> split, i |-> 0, loaded |-> <<>>],
         [begin |-> split, end |-> words, i |-> split * word_bits,
          loaded |-> <<>>] >> : split \in 0..words }

ZeroMask(nn) ==
    [w \in 1..((nn \div word_bits) + (IF nn % word_bits # 0 THEN 1 ELSE 0)) |-> 0]

\* run.cpp main up to line 43: the column is generated, m is all zero
InitQuery ==
    /\ word_bits \in WordWidths
    /\ arg_n \in 0..MaxN
    /\ arg_a0 \in [1..arg_n -> Values]
    /\ arg_x = 0
    /\ arg_m = ZeroMask(arg_n)
    /\ x_16u16 = <<>>
    /\ tasks = <<>>
    /\ kind = "none"
    /\ result = 0
    /\ ncalls = 0
    /\ pc = "q_idle"
    /\ NoCompliance
    /\ NoHashMap
    /\ NoSqb
    /\ NoSq4
    /\ NoLayout

QueryFrame ==
    UNCHANGED <<cfg, rand_next, memory, rowbuffer, current_row, v0,
                record_index, row, offset, bitmap, bitdex, hitdex, mem0,
                loads, cmps, stores, calls, rb_before, zrow, zone, dump_file,
                hash_vars, bench_vars>>

\* filter(n, a0, x, m) is called on a zero-filled m: parallel_for starts
filter(xx) ==
    /\ pc = "q_idle"
    /\ ncalls < MaxCalls
    /\ arg_x' = xx
    /\ kind' = "filter"
    /\ arg_m' = ZeroMask(arg_n)
    /\ tasks' \in Partitions(arg_n \div word_bits)
    /\ pc' = "q_parallel"
    /\ UNCHANGED <<word_bits, arg_n, arg_a0, x_16u16, result, ncalls>>
    /\ QueryFrame

\* filter_avx(n, a0, x, m) is called on a zero-filled m (std::fill)
filter_avx(xx) ==
    /\ pc = "q_idle"
    /\ ncalls < MaxCalls
    /\ arg_x' = xx
    /\ kind' = "filter_avx"
    /\ arg_m' = ZeroMask(arg_n)
    /\ tasks' \in { [t \in 1..2 |-> [p[t] EXCEPT !.i = p[t].begin]] :
                       p \in Partitions(arg_n \div word_bits) }
    /\ pc' = "q_parallel"
    /\ UNCHANGED <<word_bits, arg_n, arg_a0, x_16u16, result, ncalls>>
    /\ QueryFrame

\* a task of filter reads m[i / 32] for record i
FilterLoad(t) ==
    /\ pc = "q_parallel"
    /\ kind = "filter"
    /\ tasks[t].i < tasks[t].end * word_bits
    /\ tasks[t].loaded = <<>>
    /\ tasks' = [tasks EXCEPT ![t].loaded =
                     <<arg_m[(tasks[t].i \div word_bits) + 1]>>]
    /\ UNCHANGED <<word_bits, arg_n, arg_a0, arg_x, arg_m, x_16u16, kind,
                   result, ncalls, pc>>
    /\ QueryFrame

\* ... and writes it back with the record's bit or-ed in
FilterStore(t) ==
    /\ pc = "q_parallel"
    /\ kind = "filter"
    /\ tasks[t].loaded # <<>>
    /\ arg_m' = [arg_m EXCEPT ![(tasks[t].i \div word_bits) + 1] =
                     BitOr(tasks[t].loaded[1],
                           IF arg_a0[tasks[t].i + 1] = arg_x THEN 1 ELSE 0,
                           tasks[t].i % word_bits)]
    /\ tasks' = [tasks EXCEPT ![t].loaded = <<>>, ![t].i = tasks[t].i + 1]
    /\ UNCHANGED <<word_bits, arg_n, arg_a0, arg_x, x_16u16, kind, result,
                   ncalls, pc>>
    /\ QueryFrame

\* a task of filter_avx: m[i] = filter_chunk_avx(&a0[i * 32], x)
filter_chunk_avx(t) ==
    /\ pc = "q_parallel"
    /\ kind = "filter_avx"
    /\ tasks[t].i < tasks[t].end
    /\ x_16u16' = StaticInit(x_16u16, arg_x)
    /\ arg_m' = [arg_m EXCEPT ![tasks[t].i + 1] =
                     movemask(0, tasks[t].i * word_bits, arg_a0, x_16u16'[1])]
    /\ tasks' = [tasks EXCEPT ![t].i = tasks[t].i + 1]
    /\ UNCHANGED <<word_bits, arg_n, arg_a0, arg_x, kind, result, ncalls, pc>>
    /\ QueryFrame

TaskDone(t) ==
    /\ tasks[t].loaded = <<>>
    /\ tasks[t].i = (IF kind = "filter" THEN tasks[t].end * word_bits
                     ELSE tasks[t].end)

\* parallel_for has returned, its tasks are gone: "Process the remaining
\* records"
FilterRemaining ==
    /\ pc = "q_parallel"
    /\ \A t \in 1..Len(tasks) : TaskDone(t)
    /\ arg_m' = filter_chunk((arg_n \div word_bits) * word_bits, arg_n,
                             arg_a0, arg_x, arg_m)
    /\ tasks' = <<>>
    /\ pc' = "q_aggregate"
    /\ UNCHANGED <<word_bits, arg_n, arg_a0, arg_x, x_16u16, kind, result,
                   ncalls>>
    /\ QueryFrame

\* the sum of the words' popcounts, words 0 .. words - 1
RECURSIVE SumPopcnt(_, _)
SumPopcnt(words, mm) ==
    IF words = 0 THEN 0 ELSE popcnt(mm[words]) + SumPopcnt(words - 1, mm)

\* aggregate(n, m), called right after the filter
aggregate ==
    /\ pc = "q_aggregate"
    /\ result' = SumPopcnt((arg_n \div word_bits)
                               + (IF arg_n % word_bits # 0 THEN 1 ELSE 0),
                           arg_m)
    /\ ncalls' = ncalls + 1
    /\ pc' = "q_idle"
    /\ UNCHANGED <<word_bits, arg_n, arg_a0, arg_x, arg_m, x_16u16, tasks,
                   kind>>
    /\ QueryFrame

NextQuery ==
    \/ \E xx \in Values : filter(xx)
    \/ \E xx \in Values : filter_avx(xx)
    \/ \E t \in 1..2 : FilterLoad(t)
    \/ \E t \in 1..2 : FilterStore(t)
    \/ \E t \in 1..2 : filter_chunk_avx(t)
    \/ FilterRemaining
    \/ aggregate

SpecQuery == InitQuery /\ [][NextQuery]_vars

\* the word of m that task t of filter is working on
TaskWord(t) == tasks[t].i \div word_bits

\* task t of the call in progress still has work to do
TaskActive(t) == ~TaskDone(t)

\* C17: after filter on a zero-filled m, bit (i mod 32) of m[i div 32] is
\* set iff a0[i] = x for every i < n, and aggregate gives the count that
\* end_to_end gives; while the tasks run, each works on whole words and no
\* two tasks are on the same word, whatever the interleaving.
C17_FilterAggregate ==
    /\ (pc = "q_parallel" /\ kind = "filter") =>
           /\ \A t \in 1..Len(tasks) :
                  /\ tasks[t].begin * word_bits <= tasks[t].i
                  /\ tasks[t].i <= tasks[t].end * word_bits
                  /\ TaskActive(t) =>
                         /\ tasks[t].begin <= TaskWord(t)
                         /\ TaskWord(t) < tasks[t].end
           /\ \A t, u \in 1..Len(tasks) :
                  (t # u /\ TaskActive(t) /\ TaskActive(u)) =>
                      TaskWord(t) # TaskWord(u)
    /\ (pc = "q_aggregate" /\ kind = "filter") =>
           \A i \in 0..(arg_n - 1) :
               ((arg_m[(i \div word_bits) + 1] \div (2 ^ (i % word_bits))) % 2 = 1)
                   <=> (arg_a0[i + 1] = arg_x)
    /\ (pc = "q_idle" /\ ncalls > 0 /\ kind = "filter") =>
           result = end_to_end(arg_n, arg_a0, arg_x)

\* Two words and a remainder, one word per task, both tasks between their
\* read and their write, the first word already holding a set bit.
C17_Witness ==
    /\ pc = "q_parallel"
    /\ kind = "filter"
    /\ arg_n = 2 * word_bits + 1
    /\ tasks[1].end = 1
    /\ tasks[1].loaded # <<>>
    /\ tasks[2].loaded # <<>>
    /\ arg_m[1] # 0

\* C18: after filter_avx on a zero-filled m, aggregate gives the number of
\* i < n with a0[i] = x, on every call of a sequence of calls.  Violated by
\* a call whose x is not the x of the first call: the compare register is a
\* function-local static, set by the first call alone.
C18_AvxCountsMatches ==
    (pc = "q_idle" /\ ncalls > 0 /\ kind = "filter_avx") =>
        result = end_to_end(arg_n, arg_a0, arg_x)

\* the phase of the run: Idle 0 (before the scan loop), Scanning 1,
\* Draining 2, Done 3 (from the last store on)
PhaseOf(p) ==
    IF p \in {"main", "created"} THEN 0
    ELSE IF p \in {"for", "compare"} THEN 1
    ELSE IF p = "while" THEN 2
    ELSE 3

\* C21: for every RecordsProcessable the run goes through Idle, Scanning,
\* Draining, Done in that order, one phase at a time and never back, and
\* reaches Done; the padding loop makes fewer than 8 * W rounds.
C21_PhaseOrderAndTermination ==
    /\ [][PhaseOf(pc') \in {PhaseOf(pc), PhaseOf(pc) + 1}]_vars
    /\ [](pc \in {"while", "dump", "done"} =>
              /\ bitdex >= N
              /\ bitdex - N < 8 * cfg.ROW_BUFFER_BYTES)
    /\ <>(pc = "done")
    /\ [](pc = "done" => [](pc = "done"))

\* A finished run that scanned records and made rounds of the padding loop.
C21_Witness == pc = "done" /\ N > 0 /\ bitdex > N /\ Len(cmps) = N

(***************************************************************************)
(* The scan of main (lines 137-205) on the values of the source, followed  *)
(* for its addresses alone: the row loaded, the bytes of rowbuffer         *)
(* compared, the index of v0 written, the row stored.  The bank itself is  *)
(* left out (32768 rows of 1024 bytes), so the result of each compare is   *)
(* not known; no address depends on it.  calls holds the accesses of the   *)
(* latest step: <<"load", row>>, <<"read", offset, size>>,                 *)
(* <<"v0", index>>, <<"store", row>>.                                      *)
(***************************************************************************)
InitAddresses ==
    /\ cfg = RefGeometry
    /\ rand_next = 1
    /\ memory = <<>>
    /\ rowbuffer = <<>>
    /\ current_row = 0
    /\ v0 = <<>>
    /\ pc = "a_for"
    /\ record_index = 0
    /\ row = 0
    /\ offset = 0
    /\ bitmap = 0
    /\ bitdex = 0
    /\ hitdex = 0
    /\ mem0 = <<>>
    /\ loads = <<>>
    /\ cmps = <<>>
    /\ stores = <<>>
    /\ calls = <<>>
    /\ rb_before = <<>>
    /\ zrow = 0
    /\ zone = NoRows
    /\ dump_file = <<>>
    /\ NoHashMap
    /\ NoQuery
    /\ NoSqb
    /\ NoSq4
    /\ NoLayout

AddressFrame ==
    UNCHANGED <<cfg, rand_next, memory, rowbuffer, v0, bitmap, mem0, loads,
                cmps, stores, rb_before, zrow, zone, dump_file, hash_vars,
                query_vars, bench_vars>>

\* lines 137-155: the loop test, the record's address, the fetch
FetchAddress ==
    /\ pc = "a_for"
    /\ record_index < cfg.RECORDS_PROCESSABLE
    /\ row' = RecordRow(record_index)
    /\ offset' = RecordOffset(record_index)
    /\ IF NeedsLoad(row')
       THEN /\ current_row' = row'
            /\ calls' = << <<"load", row'>> >>
       ELSE /\ current_row' = current_row
            /\ calls' = <<>>
    /\ pc' = "a_compare"
    /\ UNCHANGED <<record_index, bitdex, hitdex>>
    /\ AddressFrame

\* lines 157-190: the compare and the bookkeeping of one record
CompareAddress ==
    /\ pc = "a_compare"
    /\ LET index_sub_offset == offset + cfg.PI_SUBINDEX_OFFSET_BYTES
           read == << <<"read", index_sub_offset, cfg.PI_ELEMENT_SIZE_BYTES>> >>
       IN  /\ bitdex' = bitdex + 1
           /\ IF bitdex' % 8 = 0
              THEN /\ hitdex' = hitdex + 1
                   /\ calls' =
                          read \o << <<"v0", hitdex % cfg.ROW_BUFFER_BYTES>> >>
                               \o (IF hitdex' % cfg.ROW_BUFFER_BYTES = 0
                                   THEN << <<"store", FlushRow(hitdex')>> >>
                                   ELSE <<>>)
              ELSE /\ hitdex' = hitdex
                   /\ calls' = read
    /\ record_index' = record_index + 1
    /\ pc' = "a_for"
    /\ UNCHANGED <<current_row, row, offset>>
    /\ AddressFrame

\* line 137: the loop test fails
EndScanAddress ==
    /\ pc = "a_for"
    /\ ~(record_index < cfg.RECORDS_PROCESSABLE)
    /\ pc' = "a_while"
    /\ calls' = <<>>
    /\ UNCHANGED <<current_row, record_index, row, offset, bitdex, hitdex>>
    /\ AddressFrame

\* lines 194-204: one round of the padding loop
DrainAddress ==
    /\ pc = "a_while"
    /\ DrainContinues
    /\ bitdex' = bitdex + 1
    /\ IF bitdex' % 8 = 0
       THEN /\ hitdex' = hitdex + 1
            /\ calls' = << <<"v0", hitdex % cfg.ROW_BUFFER_BYTES>> >>
       ELSE /\ hitdex' = hitdex
            /\ calls' = <<>>
    /\ UNCHANGED <<current_row, record_index, row, offset, pc>>
    /\ AddressFrame

\* line 205: the last store
FinalFlushAddress ==
    /\ pc = "a_while"
    /\ ~DrainContinues
    /\ calls' = << <<"store", FlushRow(hitdex)>> >>
    /\ pc' = "a_done"
    /\ UNCHANGED <<current_row, record_index, row, offset, bitdex, hitdex>>
    /\ AddressFrame

NextAddresses ==
    \/ FetchAddress
    \/ CompareAddress
    \/ EndScanAddress
    \/ DrainAddress
    \/ FinalFlushAddress

SpecAddresses == InitAddresses /\ [][NextAddresses]_vars

\* C22: in the reference geometry every row given to load_row during the
\* scan is a record row, every row given to store_v0 is a row of the bank,
\* the bytes compared lie inside rowbuffer, and every write to v0 is at an
\* index inside v0.
C22_AddressBounds ==
    pc \in {"a_for", "a_compare", "a_while", "a_done"} =>
        \A k \in 1..Len(calls) :
            LET c == calls[k]
            IN  /\ c[1] = "load" =>
                       /\ cfg.RECORD_BASE_ROW <= c[2]
                       /\ c[2] < cfg.HITMAP_BASE_ROW
                /\ c[1] = "store" => 0 <= c[2] /\ c[2] < cfg.BANK_ROWS
                /\ c[1] = "read" =>
                       /\ 0 <= c[2]
                       /\ c[2] + c[3] <= cfg.ROW_BUFFER_BYTES
                /\ c[1] = "v0" => 0 <= c[2] /\ c[2] < cfg.ROW_BUFFER_BYTES

\* The last record of the reference geometry has just been compared, at the
\* second record offset of the last record row.
C22_Witness ==
    /\ pc = "a_for"
    /\ record_index = RefGeometry.RECORDS_PROCESSABLE
    /\ row = cfg.HITMAP_BASE_ROW - 1
    /\ calls[1] = <<"read", cfg.RECORD_SIZE_BYTES, cfg.PI_ELEMENT_SIZE_BYTES>>

\* C23: store_v0(r) makes memory[r] the W bytes of v0 and leaves
\* current_row, rowbuffer, v0 and every other row of memory as they were;
\* load_row(r) makes rowbuffer the bytes of memory[r] and current_row r and
\* leaves memory and v0 as they were.
C23_FrameOfStoreAndLoad ==
    [][pc = "rowstore" =>
          LET c == calls'[Len(calls')]
          IN  /\ c[1] = "store" =>
                     /\ \A r \in Rows : \A byte \in Bytes :
                            memory'[r][byte] =
                                (IF r = c[2] THEN v0[byte] ELSE memory[r][byte])
                     /\ UNCHANGED <<current_row, rowbuffer, v0>>
              /\ c[1] = "load" =>
                     /\ \A byte \in Bytes : rowbuffer'[byte] = memory[c[2]][byte]
                     /\ current_row' = c[2]
                     /\ UNCHANGED <<memory, v0>>]_vars

\* store_v0(1) right after load_row(1): row 1 of memory now differs from
\* what create_memory left and from the row buffer, which still holds the
\* old row.
C23_Witness ==
    /\ pc = "rowstore"
    /\ calls = << <<"load", 1>>, <<"store", 1>> >>
    /\ memory[1] = v0
    /\ memory[1] # mem0[1]
    /\ rowbuffer = mem0[1]
    /\ current_row = 1

\* bucket b is on the chain that starts at bucket from (next links only
\* ever point at a bucket appended later, so a chain ends)
RECURSIVE OnChain(_, _)
OnChain(from, b) ==
    \/ from = b
    \/ /\ buckets_[from + 1].next # UINT32_MAX
       /\ buckets_[from + 1].next < Len(buckets_)
       /\ buckets_[from + 1].next > from
       /\ OnChain(buckets_[from + 1].next, b)

\* C24: an insert that finds the last bucket of the key's chain full
\* appends one bucket, makes the full bucket's next the new bucket's index
\* and puts the pair in slot 0 of the new bucket with count 1, the full
\* bucket keeping its items and its count; so every bucket appended after
\* construction is on the chain of exactly one initial bucket.  Violated:
\* the new, empty bucket is copied over the bucket the reference names.
C24_ChainGrowth ==
    pc = "hashmap" =>
        /\ growth # <<>> =>
               /\ Len(buckets_) = growth.new + 1
               /\ buckets_[growth.end + 1].next = growth.new
               /\ buckets_[growth.end + 1].items = growth.before.items
               /\ buckets_[growth.end + 1].count = growth.before.count
               /\ buckets_[growth.new + 1].items[1] = growth.pair
               /\ buckets_[growth.new + 1].count = 1
        /\ \A b \in (mask_ + 1)..(Len(buckets_) - 1) :
               Cardinality({from \in 0..mask_ : OnChain(from, b)}) = 1

\* row r belongs to the targeted hitmap
TargetedRow(r) ==
    /\ TargetBase <= r
    /\ r < TargetBase + cfg.ROWS_FOR_HITMAPS \div cfg.HITMAP_COUNT

\* row r belongs to some hitmap
HitmapRow(r) ==
    /\ cfg.HITMAP_BASE_ROW <= r
    /\ r < cfg.HITMAP_BASE_ROW + cfg.ROWS_FOR_HITMAPS

\* C25: from the end of create_memory to Done, rows outside the targeted
\* hitmap hold the bytes create_memory gave them, and every byte of the
\* other hitmaps is still 0xFF.
C25_FrameOfScan ==
    pc \in {"created", "for", "compare", "while", "dump", "done"} =>
        \A r \in Rows :
            ~TargetedRow(r) =>
                \A byte \in Bytes :
                    /\ memory[r][byte] = mem0[r][byte]
                    /\ HitmapRow(r) => memory[r][byte] = 255

\* A finished run that filled the whole targeted hitmap, next to another
\* hitmap, and changed its last row.
C25_Witness ==
    /\ pc = "done"
    /\ N = Capacity
    /\ cfg.HITMAP_COUNT > 1
    /\ LET last == TargetBase + cfg.ROWS_FOR_HITMAPS \div cfg.HITMAP_COUNT - 1
       IN  memory[last] # mem0[last]

\* the i-th bit shifted into bitmap (from 0): the bit packed for record i,
\* then the ones of the padding loop
ShiftedBit(i) == IF i < Len(cmps) THEN cmps[i + 1][4] ELSE 1

\* the value of the 8 bits shifted in last when b bits have been shifted
\* in, the newest lowest; bits before the first count as 0
LastEight(b) ==
    LET bit(i) == IF i < 0 THEN 0 ELSE ShiftedBit(i)
    IN  128 * bit(b - 8) + 64 * bit(b - 7) + 32 * bit(b - 6) + 16 * bit(b - 5)
          + 8 * bit(b - 4) + 4 * bit(b - 3) + 2 * bit(b - 2) + bit(b - 1)

\* C26: bitmap is never reset, yet it always holds exactly the 8 bits
\* shifted in last; the byte written into v0 when bitdex reaches a multiple
\* of 8 is those 8 bits, with no bit of an earlier byte in it, and a byte
\* made of padding alone is 0xFF.
C26_ByteIsolation ==
    pc \in {"for", "compare", "while", "dump", "done"} =>
        /\ bitmap = LastEight(bitdex)
        /\ (bitdex > 0 /\ bitdex % 8 = 0) =>
               /\ hitdex = bitdex \div 8
               /\ v0[(hitdex - 1) % cfg.ROW_BUFFER_BYTES] = LastEight(bitdex)
               /\ bitdex - 8 >= N =>
                      v0[(hitdex - 1) % cfg.ROW_BUFFER_BYTES] = 255

\* A second byte has just been written whose bits differ from those of the
\* first, which held a hit: without the truncation the hit would show.
C26_Witness ==
    /\ pc = "for"
    /\ bitdex = 16
    /\ LastEight(8) # 0
    /\ LastEight(16) # LastEight(8)
    /\ LastEight(16) # 255
    /\ v0[1] = LastEight(16)

\* ------------------------------------------------------------------------
\* HashMap<K, V> of sqb.cpp (compliance/cpu/src/sqb/sqb.cpp, lines 11-87):
\* open addressing with linear probing.  Slot i of the code is
\* data_[i + 1], a record of the tuple's three parts.  The hash function is
\* the text of BlimpHashMap's (line 86), so hash above is used; mask_ is
\* the variable mask_.
\* ------------------------------------------------------------------------
\* a value-initialised std::tuple<bool, K, V>
EmptySlot == [filled |-> FALSE, key |-> 0, value |-> 0]

\* a compare of keys that never finds the key
SameKeyNever(slot, key) == FALSE

\* lines 40 and 70: std::get<1>(slot) == key
SameKey(slot, key) == slot.key = key

\* a probe that stays on the slot it started at
NextIndexStay(index) == index

\* lines 44-46 and 74-76: if (++index == data_.size()) index = 0
NextIndex(index) == IF index + 1 = Len(data_) THEN 0 ELSE index + 1

\* the loop of insert (lines 33-47) and of fetch (lines 63-77), which have
\* the same body: how it ends, and with which index
RECURSIVE Probe(_, _, _)
Probe(index, iteration, key) ==
    IF ~(iteration < Len(data_))
    THEN [how |-> "exhausted", index |-> index]
    ELSE IF ~data_[index + 1].filled
    THEN [how |-> "unfilled", index |-> index]
    ELSE IF SameKey(data_[index + 1], key)
    THEN [how |-> "found", index |-> index]
    ELSE Probe(NextIndex(index), iteration + 1, key)

\* HashMap() or HashMap(capacity)
InitSqb ==
    /\ \/ data_ = <<>> /\ mask_ = 0
       \/ \E capacity \in 0..MaxCapacity :
              LET augmented_capacity == NumBuckets(1, capacity * 2)
              IN  /\ data_ = [i \in 1..augmented_capacity |-> EmptySlot]
                  /\ mask_ = augmented_capacity - 1
    /\ attempt = <<>>
    /\ accepted = {}
    /\ pc = "sqb"
    /\ bucket_size_ = 0 /\ buckets_ = <<>> /\ allocated = 0
    /\ inserted = <<>> /\ growth = <<>>
    /\ NoCompliance
    /\ NoQuery
    /\ NoSq4
    /\ NoLayout

\* insert(key, value): it returns, or throws std::runtime_error
HashMap_insert(key, value) ==
    LET end == Probe(hash(key), 0, key)
        thrown == IF end.how = "found"
                  THEN "insertion failed (duplicate key)"
                  ELSE IF end.how = "exhausted"
                  THEN "insertion failed (no unoccupied slots)"
                  ELSE ""
    IN  /\ pc = "sqb"
        /\ attempt' = [key |-> key, value |-> value, before |-> data_,
                       thrown |-> thrown]
        /\ IF thrown = ""
           THEN /\ data_' = [data_ EXCEPT ![end.index + 1] =
                                [filled |-> TRUE, key |-> key, value |-> value]]
                /\ accepted' = accepted \cup {<<key, value>>}
           ELSE UNCHANGED <<data_, accepted>>
        /\ UNCHANGED <<cfg, rand_next, memory, rowbuffer, current_row, v0, pc,
                       record_index, row, offset, bitmap, bitdex, hitdex,
                       mem0, loads, cmps, stores, calls, rb_before, zrow,
                       zone, dump_file, bucket_size_, buckets_, mask_,
                       allocated, inserted, growth, query_vars, sq4_vars,
                       layout_vars>>

\* fetch(key): the address of the value, kept as the slot's index, or NULL
HashMap_fetch(key) ==
    LET end == Probe(hash(key), 0, key)
    IN  IF end.how = "found" THEN <<end.index>> ELSE NULL

NextSqb == \E key \in 0..MaxKey : \E value \in 1..MaxValue : HashMap_insert(key, value)

SpecSqb == InitSqb /\ [][NextSqb]_vars

\* the key is in a filled slot of table
StoredIn(table, key) ==
    \E i \in 1..Len(table) : table[i].filled /\ table[i].key = key

\* C27: an insert of a key that is already stored throws the duplicate-key
\* error and leaves every slot as it was; fetch of every stored key gives
\* the value first inserted with it; no key is in two slots.
C27_DuplicateKey ==
    pc = "sqb" =>
        /\ (attempt # <<>> /\ StoredIn(attempt.before, attempt.key)) =>
               /\ attempt.thrown = "insertion failed (duplicate key)"
               /\ data_ = attempt.before
        /\ \A pair \in accepted :
               /\ HashMap_fetch(pair[1]) # NULL
               /\ data_[HashMap_fetch(pair[1])[1] + 1].value = pair[2]
        /\ \A i, j \in 1..Len(data_) :
               (i # j /\ data_[i].filled /\ data_[j].filled) =>
                   data_[i].key # data_[j].key

\* A stored key was given again with another value, behind a key that
\* collided with it, and the insert threw.
C27_Witness ==
    /\ pc = "sqb"
    /\ Cardinality(accepted) >= 2
    /\ attempt.thrown = "insertion failed (duplicate key)"
    /\ \E pair \in accepted :
           /\ pair[1] = attempt.key
           /\ pair[2] # attempt.value
           /\ HashMap_fetch(attempt.key)[1] # hash(attempt.key)

\* the first unfilled slot of table in probe order from the key's hash
FirstUnfilled(table, key) ==
    LET size == Len(table)
        at(d) == (hash(key) + d) % size
        d0 == CHOOSE d \in 0..(size - 1) :
                  /\ ~table[at(d) + 1].filled
                  /\ \A e \in 0..(d - 1) : table[at(e) + 1].filled
    IN  at(d0)

\* C28: an insert of a key that is not stored throws the no-unoccupied-slots
\* error exactly when every slot is filled (always so in a default-
\* constructed map, which has no slot) and then leaves the table as it was;
\* otherwise it fills the first unfilled slot in probe order from hash(k),
\* wrapping round, and fetch(k) gives the value; fetch of a key never
\* inserted is NULL.
C28_FullTable ==
    pc = "sqb" =>
        /\ (attempt # <<>> /\ ~StoredIn(attempt.before, attempt.key)) =>
               LET full == \A i \in 1..Len(attempt.before) : attempt.before[i].filled
               IN  /\ (attempt.thrown = "insertion failed (no unoccupied slots)")
                        <=> full
                   /\ full => data_ = attempt.before
                   /\ ~full =>
                          /\ attempt.thrown = ""
                          /\ data_ = [attempt.before EXCEPT
                                 ![FirstUnfilled(attempt.before, attempt.key) + 1] =
                                     [filled |-> TRUE, key |-> attempt.key,
                                      value |-> attempt.value]]
                          /\ HashMap_fetch(attempt.key) # NULL
                          /\ data_[HashMap_fetch(attempt.key)[1] + 1].value
                                 = attempt.value
        /\ \A key \in 0..MaxKey :
               (\A pair \in accepted : pair[1] # key) =>
                   HashMap_fetch(key) = NULL

\* A table of several slots is full and an insert of a new key threw.
C28_Witness ==
    /\ pc = "sqb"
    /\ Len(data_) > 1
    /\ attempt # <<>>
    /\ attempt.thrown = "insertion failed (no unoccupied slots)"
    /\ ~StoredIn(data_, attempt.key)

\* ------------------------------------------------------------------------
\* sq4_hit_map of sqb.cpp (lines 294-339) after the probe (lines 180-195).
\* A word of hit_map has 32 bits in the source and word_bits bits here.
\* Record i of the code is a_10[i + 1], word w is hit_map[w + 1], entry p
\* of payloads is payloads[p + 1].  payload_index is the one counter of
\* line 307, captured by reference by every task of every trial;
\* "payloads[payload_index++]" is a read of the counter and a later write.
\* ------------------------------------------------------------------------
MaxRecords == 5
MaxTrials == 2
MaxNb == 2
MaxB10 == 1

\* line 312: std::vector<uint32_t>(10)
Groups == 10

\* lines 185-192 from record i on: the hit map and the payloads
RECURSIVE ProbeFrom(_, _, _, _, _)
ProbeFrom(i, a_b_k, found, hm, pl) ==
    IF ~(i < Len(a_b_k)) THEN [hit_map |-> hm, payloads |-> pl]
    ELSE IF found[a_b_k[i + 1]] # NULL
    THEN ProbeFrom(i + 1, a_b_k, found,
                   [hm EXCEPT ![(i \div word_bits) + 1] =
                        BitOr(@, 1, i % word_bits)],
                   Append(pl, found[a_b_k[i + 1]][1]))
    ELSE ProbeFrom(i + 1, a_b_k, found, hm, pl)

\* found[key] is what hash_map.fetch(key) gives: NULL or the value
sq4_hash_map_probe_emit_hit_map(a_b_k, found) ==
    ProbeFrom(0, a_b_k, found, ZeroMask(Len(a_b_k)), <<>>)

\* the map hash_map_build leaves: the keys of b_k whose b_100 is below sel,
\* each with its b_10
HashMapsBuilt ==
    { [key \in 0..(MaxNb - 1) |->
          IF key \in selected THEN <<b_10[key]>> ELSE NULL] :
        selected \in SUBSET (0..(MaxNb - 1)),
        b_10 \in [0..(MaxNb - 1) -> 0..MaxB10] }

\* sq4_hit_map up to line 307
InitSq4 ==
    /\ word_bits \in WordWidths
    /\ \E nn \in 0..MaxRecords : \E a_b_k \in [1..nn -> 0..(MaxNb - 1)] :
       \E found \in HashMapsBuilt :
          LET probe_result == sq4_hash_map_probe_emit_hit_map(a_b_k, found)
          IN  /\ hit_map = probe_result.hit_map
              /\ payloads = probe_result.payloads
              /\ a_10 = [i \in 1..nn |-> i % Groups]
    /\ payload_index = 0
    /\ sq4_trials \in 1..MaxTrials
    /\ sq4_trial = 0
    /\ tasks = <<>>
    /\ task_acc = <<>>
    /\ consumed = <<>>
    /\ pc = "sq4_idle"
    /\ arg_n = 0 /\ arg_a0 = <<>> /\ arg_x = 0 /\ arg_m = <<>>
    /\ x_16u16 = <<>> /\ kind = "none" /\ result = 0 /\ ncalls = 0
    /\ NoCompliance
    /\ NoHashMap
    /\ NoSqb
    /\ NoLayout

Sq4Frame ==
    UNCHANGED <<cfg, rand_next, memory, rowbuffer, current_row, v0,
                record_index, row, offset, bitmap, bitdex, hitdex, mem0,
                loads, cmps, stores, calls, rb_before, zrow, zone, dump_file,
                hash_vars, sqb_vars, layout_vars, word_bits, arg_n, arg_a0,
                arg_x, arg_m, x_16u16, kind, result, ncalls, hit_map,
                payloads, a_10, sq4_trials>>

\* __builtin_ctz of a mask that is not 0
RECURSIVE ctz(_)
ctz(mask) == IF mask % 2 = 1 THEN 0 ELSE 1 + ctz(mask \div 2)

\* lines 314-317: the task goes on to the next word while mask is 0
RECURSIVE NextSetBit(_)
NextSetBit(task) ==
    IF task.i = task.end \/ task.mask # 0 THEN task
    ELSE NextSetBit([task EXCEPT !.i = task.i + 1,
                                 !.mask = IF task.i + 1 < task.end
                                          THEN hit_map[task.i + 2] ELSE 0])

\* a task of the body for the words [begin, end)
Sq4Task(begin, end) ==
    NextSetBit([begin |-> begin, end |-> end, i |-> begin,
                mask |-> IF begin < end THEN hit_map[begin + 1] ELSE 0,
                loaded |-> <<>>])

\* a trial: util::time(trials, f) calls f trials times (util.hpp, lines
\* 18-24); in f, parallel_reduce splits the range [0, hit_map.size()) and
\* gives each task an accumulator of 10 zeros
Sq4Trial ==
    /\ pc = "sq4_idle"
    /\ sq4_trial < sq4_trials
    /\ \E p \in Partitions(Len(hit_map)) :
           tasks' = [t \in 1..2 |-> Sq4Task(p[t].begin, p[t].end)]
    /\ task_acc' = [t \in 1..2 |-> [g \in 0..(Groups - 1) |-> 0]]
    /\ pc' = "sq4_parallel"
    /\ UNCHANGED <<payload_index, sq4_trial, consumed>>
    /\ Sq4Frame

\* line 320, first half: the task reads payload_index
Sq4Load(t) ==
    /\ pc = "sq4_parallel"
    /\ tasks[t].i # tasks[t].end
    /\ tasks[t].loaded = <<>>
    /\ tasks' = [tasks EXCEPT ![t].loaded = <<payload_index>>]
    /\ UNCHANGED <<payload_index, task_acc, sq4_trial, consumed, pc>>
    /\ Sq4Frame

\* an accumulator after "acc[index] += value" with an indeterminate index:
\* no entry of it is known
Indeterminate == <<>>

\* acc[payload] += value_a_10
AccAdd(acc, payload, value_a_10) ==
    IF acc = Indeterminate THEN acc
    ELSE [acc EXCEPT ![payload] = @ + value_a_10]

\* lines 318-321, the rest: the task writes the counter back, reads
\* payloads at the index it loaded and adds to its accumulator.  A read at
\* or beyond payloads.size() is undefined: the run ends there, or goes on
\* with an indeterminate value as the index into acc.
Sq4Store(t) ==
    LET k == ctz(tasks[t].mask)
        j == tasks[t].i * word_bits
        index == tasks[t].loaded[1]
        after == NextSetBit([tasks[t] EXCEPT !.mask = @ - 2 ^ k,
                                             !.loaded = <<>>])
    IN  /\ pc = "sq4_parallel"
        /\ tasks[t].loaded # <<>>
        /\ payload_index' = index + 1
        /\ consumed' = <<j + k, index>>
        /\ IF index < Len(payloads)
           THEN /\ task_acc' = [task_acc EXCEPT ![t] =
                       AccAdd(@, payloads[index + 1], a_10[j + k + 1])]
                /\ tasks' = [tasks EXCEPT ![t] = after]
                /\ pc' = pc
           ELSE \/ /\ task_acc' = [task_acc EXCEPT ![t] = Indeterminate]
                   /\ tasks' = [tasks EXCEPT ![t] = after]
                   /\ pc' = pc
                \/ /\ pc' = "sq4_aborted"
                   /\ UNCHANGED <<tasks, task_acc>>
        /\ UNCHANGED sq4_trial
        /\ Sq4Frame

\* lines 327-332
Sq4Join(acc1, acc2) ==
    IF acc1 = Indeterminate \/ acc2 = Indeterminate THEN Indeterminate
    ELSE [g \in 0..(Groups - 1) |-> acc1[g] + acc2[g]]

\* the tasks have returned: their accumulators are joined, the value of
\* parallel_reduce is dropped, the trial is over
Sq4TrialEnd ==
    /\ pc = "sq4_parallel"
    /\ \A t \in 1..2 : tasks[t].i = tasks[t].end /\ tasks[t].loaded = <<>>
    /\ task_acc' = <<Sq4Join(task_acc[1], task_acc[2])>>
    /\ tasks' = <<>>
    /\ sq4_trial' = sq4_trial + 1
    /\ pc' = "sq4_idle"
    /\ UNCHANGED <<payload_index, consumed>>
    /\ Sq4Frame

NextSq4 ==
    \/ Sq4Trial
    \/ \E t \in 1..2 : Sq4Load(t)
    \/ \E t \in 1..2 : Sq4Store(t)
    \/ Sq4TrialEnd

SpecSq4 == InitSq4 /\ [][NextSq4]_vars

\* the number of hits among the records before record j
RECURSIVE HitsBefore(_)
HitsBefore(j) ==
    IF j = 0 THEN 0
    ELSE HitsBefore(j - 1)
           + ((hit_map[((j - 1) \div word_bits) + 1] \div (2 ^ ((j - 1) % word_bits))) % 2)

\* C29: whenever a task consumes a payload for the set bit of record j, the
\* index it uses is the number of hits before j (the entry the probe
\* emitted for record j), and it is below payloads.size().
C29_PayloadPairing ==
    (pc \in {"sq4_idle", "sq4_parallel", "sq4_aborted"} /\ consumed # <<>>) =>
        /\ consumed[2] = HitsBefore(consumed[1])
        /\ consumed[2] < Len(payloads)

\* ------------------------------------------------------------------------
\* vertical.cpp (compliance/data_layout): the horizontal-to-vertical
\* relayout, timed trials times.  Byte a of a buffer is region[a + 1].
\* malloc leaves both buffers uninitialised; the first loop sets the last
\* byte of every datum of src_memory_region and nothing else.  A byte of
\* dst_memory_region that was never written is -1 (it is never read).
\* ------------------------------------------------------------------------
MaxChunkSize == 2
MaxDataSize == 2
MaxPages == 2

\* what the bytes that malloc returned and nobody wrote may hold
Uninitialised == {0, 165, 255}

\* lines 33-39: byte i - 1 is set for every multiple i of data_size
SrcAfterInit(size, dsize, fill) ==
    [a \in 1..size |-> IF a % dsize = 0 THEN ((a \div dsize) - 1) % 256
                       ELSE fill]

\* main up to line 41
InitVertical ==
    /\ chunk_size \in 1..MaxChunkSize
    /\ data_size \in 1..MaxDataSize
    /\ \E pages \in 1..MaxPages : region_size = pages * chunk_size * data_size * 8
    /\ trials \in 1..MaxTrials
    /\ \E fill \in Uninitialised :
           src_memory_region = SrcAfterInit(region_size, data_size, fill)
    /\ dst_memory_region = [a \in 1..region_size |-> -1]
    /\ z_index = 0
    /\ trial = 0
    /\ chunk = 0
    /\ writes = <<>>
    /\ pc = "v_chunks"
    /\ NoCompliance
    /\ NoHashMap
    /\ NoQuery
    /\ NoSqb
    /\ NoSq4

VerticalFrame ==
    UNCHANGED <<cfg, rand_next, memory, rowbuffer, current_row, v0,
                record_index, row, offset, bitmap, bitdex, hitdex, mem0,
                loads, cmps, stores, calls, rb_before, zrow, zone, dump_file,
                hash_vars, query_vars, sqb_vars, sq4_vars, region_size,
                trials, chunk_size, data_size, src_memory_region>>

\* lines 59-66 for bits j .. last of chunk i: tmp after them
RECURSIVE GatherBits(_, _, _, _)
GatherBits(i, j, last, tmp) ==
    LET chunk_page == i \div (data_size * 8)
        chunk_bit_index == i % (data_size * 8)
        start_data_index == chunk_page * chunk_size * 8
        byte_offset == chunk_bit_index \div 8
        byte_bit == chunk_bit_index % 8
        sub_start_index == start_data_index + j
        src_address == sub_start_index * data_size + byte_offset
        data == src_memory_region[src_address + 1]
        bit == IF BitAnd(data, 128 \div (2 ^ byte_bit)) > 0 THEN 1 ELSE 0
    IN  IF j > last THEN tmp
        ELSE GatherBits(i, j + 1, last, ((tmp * 2) % 256) + bit)

\* the bytes chunk i stores at line 69, in order
ChunkBytes(i) == [b \in 1..chunk_size |-> GatherBits(i, (b - 1) * 8, (b * 8) - 1, 0)]

\* dst after the stores of bytes at z, z + 1, ... that are inside it
RECURSIVE StoreInside(_, _, _, _)
StoreInside(dst, bytes, b, zz) ==
    IF b > Len(bytes) THEN dst
    ELSE StoreInside(IF zz < Len(dst) THEN [dst EXCEPT ![zz + 1] = bytes[b]]
                     ELSE dst,
                     bytes, b + 1, zz + 1)

\* lines 49-73, one chunk: chunk_size bytes go to dst_memory_region[z++].
\* A store at or beyond region_size is outside the malloc'ed block, which
\* is undefined: the run ends there, or goes on with dst as it is.
VerticalChunk ==
    /\ pc = "v_chunks"
    /\ trial < trials
    /\ chunk < region_size \div chunk_size
    /\ writes' = [b \in 1..chunk_size |-> z_index + (b - 1)]
    /\ IF z_index + chunk_size <= region_size
       THEN /\ dst_memory_region' =
                   StoreInside(dst_memory_region, ChunkBytes(chunk), 1, z_index)
            /\ z_index' = z_index + chunk_size
            /\ chunk' = chunk + 1
            /\ pc' = pc
       ELSE \/ /\ dst_memory_region' =
                      StoreInside(dst_memory_region, ChunkBytes(chunk), 1, z_index)
               /\ z_index' = z_index + chunk_size
               /\ chunk' = chunk + 1
               /\ pc' = pc
            \/ /\ pc' = "v_aborted"
               /\ UNCHANGED <<dst_memory_region, z_index, chunk>>
    /\ UNCHANGED trial
    /\ VerticalFrame

\* lines 74-80 and 43: the trial is over, the next one starts; z is the
\* variable of line 41 and keeps its value
VerticalTrialEnd ==
    /\ pc = "v_chunks"
    /\ trial < trials
    /\ chunk = region_size \div chunk_size
    /\ trial' = trial + 1
    /\ chunk' = 0
    /\ pc' = IF trial + 1 < trials THEN "v_chunks" ELSE "v_done"
    /\ UNCHANGED <<dst_memory_region, z_index, writes>>
    /\ VerticalFrame

NextVertical == VerticalChunk \/ VerticalTrialEnd

SpecVertical == InitVertical /\ [][NextVertical]_vars

\* C30: every store to dst_memory_region is at an index below region_size,
\* and chunk i of every trial stores the bytes i * chunk_size ..
\* (i + 1) * chunk_size - 1, so that each trial writes the same bytes.
C30_WriteBounds ==
    (pc \in {"v_chunks", "v_done", "v_aborted"} /\ writes # <<>>) =>
        \A b \in 1..Len(writes) :
            /\ writes[b] < region_size
            /\ pc = "v_chunks" /\ chunk > 0 =>
                   writes[b] = (chunk - 1) * chunk_size + (b - 1)

====
